---- MODULE Spec2Model ----
(***************************************************************************)
(* A model of paprika_to_apple_notes.py: the Recipe extractor and its text *)
(* cleaners, the per-recipe renderer, the table of contents, and the       *)
(* converter's run (main / convert).                                       *)
(*                                                                         *)
(* Text is a sequence of characters.  A character is a one-character       *)
(* string; a character outside ASCII is written by its code point          *)
(* ("U+00BD" is the vulgar fraction one half).                             *)
(*                                                                         *)
(* What the model covers of the library functions the code calls:          *)
(*   - the characters are ASCII letters and digits and those of            *)
(*     OtherChars; str.lower, str.upper, str.title, NFKC and the regex     *)
(*     classes are given for these;                                        *)
(*   - html.unescape is given for named references of Html5 (amp, lt, gt,  *)
(*     quot, apos), not for numeric references;                            *)
(*   - len(title) * 0.7 is computed exactly (7 * len / 10), which is what  *)
(*     the float product gives for titles shorter than 90 characters;      *)
(*   - an element of the export is given by the text that get_text()       *)
(*     returns for it, a block element by the texts between its <br/>.     *)
(***************************************************************************)
EXTENDS Integers, Sequences, FiniteSets, TLC

(***************************************************************************)
(* Characters: classes, case mapping and code points (Python str methods). *)
(***************************************************************************)
LowerSeq == << "a","b","c","d","e","f","g","h","i","j","k","l","m",
               "n","o","p","q","r","s","t","u","v","w","x","y","z" >>

UpperSeq == << "A","B","C","D","E","F","G","H","I","J","K","L","M",
               "N","O","P","Q","R","S","T","U","V","W","X","Y","Z" >>

DigitSeq == << "0","1","2","3","4","5","6","7","8","9" >>

\* The characters other than ASCII letters and digits, with their code points.
OtherChars ==
    { <<"\t", 9>>, <<"\n", 10>>, <<" ", 32>>, <<"!", 33>>, <<"\"", 34>>,
      <<"#", 35>>, <<"&", 38>>, <<"'", 39>>, <<"*", 42>>, <<",", 44>>,
      <<"-", 45>>, <<".", 46>>, <<"/", 47>>, <<":", 58>>, <<";", 59>>,
      <<"<", 60>>, <<">", 62>>, <<"?", 63>>, <<"\\", 92>>, <<"_", 95>>,
      <<"|", 124>>,
      <<"U+00BD", 189>>,    \* VULGAR FRACTION ONE HALF
      <<"U+00C9", 201>>,    \* LATIN CAPITAL LETTER E WITH ACUTE
      <<"U+00E9", 233>>,    \* LATIN SMALL LETTER E WITH ACUTE
      <<"U+00BC", 188>>,    \* VULGAR FRACTION ONE QUARTER
      <<"U+0131", 305>>,    \* LATIN SMALL LETTER DOTLESS I
      <<"U+2153", 8531>>,    \* VULGAR FRACTION ONE THIRD
      <<"U+2154", 8532>>,    \* VULGAR FRACTION TWO THIRDS
      <<"U+00BE", 190>>,    \* VULGAR FRACTION THREE QUARTERS
      <<"U+2155", 8533>>,    \* VULGAR FRACTION ONE FIFTH
      <<"U+2156", 8534>>,    \* VULGAR FRACTION TWO FIFTHS
      <<"U+2157", 8535>>,    \* VULGAR FRACTION THREE FIFTHS
      <<"U+2158", 8536>>,    \* VULGAR FRACTION FOUR FIFTHS
      <<"U+2159", 8537>>,    \* VULGAR FRACTION ONE SIXTH
      <<"U+215A", 8538>>,    \* VULGAR FRACTION FIVE SIXTHS
      <<"U+215B", 8539>>,    \* VULGAR FRACTION ONE EIGHTH
      <<"U+215C", 8540>>,    \* VULGAR FRACTION THREE EIGHTHS
      <<"U+215D", 8541>>,    \* VULGAR FRACTION FIVE EIGHTHS
      <<"U+215E", 8542>>,    \* VULGAR FRACTION SEVEN EIGHTHS
      <<"U+2044", 8260>> }  \* FRACTION SLASH

Range(f) == { f[i] : i \in DOMAIN f }

\* the vulgar fractions: the glyph, and the digits of its compatibility
\* decomposition <digit, FRACTION SLASH, digit>
VulgarFractions ==
    << << "U+00BD", "1", "2" >>, << "U+2153", "1", "3" >>, << "U+2154", "2", "3" >>,
       << "U+00BC", "1", "4" >>, << "U+00BE", "3", "4" >>, << "U+2155", "1", "5" >>,
       << "U+2156", "2", "5" >>, << "U+2157", "3", "5" >>, << "U+2158", "4", "5" >>,
       << "U+2159", "1", "6" >>, << "U+215A", "5", "6" >>, << "U+215B", "1", "8" >>,
       << "U+215C", "3", "8" >>, << "U+215D", "5", "8" >>, << "U+215E", "7", "8" >> >>

\* the numeric characters that are no decimal digit: \w matches them, \d does not
IsVulgarFraction(c) == \E k \in DOMAIN VulgarFractions : VulgarFractions[k][1] = c

Pos(seq, c) == CHOOSE i \in DOMAIN seq : seq[i] = c

AsciiUpper == Range(UpperSeq)

AsciiLower == Range(LowerSeq)

Digits == Range(DigitSeq)

IsAsciiUpper(c) == c \in AsciiUpper

IsAsciiLower(c) == c \in AsciiLower

IsDigit(c) == c \in Digits

\* str.isspace / the regex class \s
IsSpace(c) == c \in {" ", "\t", "\n"}

\* str.isupper of one character
IsUpper(c) == c \in AsciiUpper \/ c = "U+00C9"

\* a cased character (str.title, str.lower, str.upper act on it)
IsCased(c) == c \in AsciiUpper \/ c \in AsciiLower \/ c \in {"U+0131", "U+00C9", "U+00E9"}

\* the regex class \w
IsWordChar(c) ==
    c \in AsciiUpper \/ c \in AsciiLower \/ c \in Digits
        \/ c \in {"_", "U+0131", "U+00C9", "U+00E9"} \/ IsVulgarFraction(c)

\* c.lower() for the characters it changes
LowerOf ==
    [c \in AsciiUpper \cup {"U+00C9"} |->
        IF c = "U+00C9" THEN "U+00E9" ELSE LowerSeq[Pos(UpperSeq, c)]]

\* c.upper() for the characters it changes: 'ı'.upper() is 'I'
UpperOf ==
    [c \in AsciiLower \cup {"U+0131", "U+00E9"} |->
        IF c = "U+0131" THEN "I"
        ELSE IF c = "U+00E9" THEN "U+00C9"
        ELSE UpperSeq[Pos(LowerSeq, c)]]

LowerCh(c) == IF c \in DOMAIN LowerOf THEN LowerOf[c] ELSE c

UpperCh(c) == IF c \in DOMAIN UpperOf THEN UpperOf[c] ELSE c

\* ord(c)
Ord(c) ==
    IF IsAsciiUpper(c) THEN 64 + Pos(UpperSeq, c)
    ELSE IF IsAsciiLower(c) THEN 96 + Pos(LowerSeq, c)
    ELSE IF IsDigit(c) THEN 47 + Pos(DigitSeq, c)
    ELSE (CHOOSE p \in OtherChars : p[1] = c)[2]

(***************************************************************************)
(* Sequences of characters.                                                *)
(***************************************************************************)
\* str.lower, str.upper
Lower(s) == [i \in 1..Len(s) |-> LowerCh(s[i])]

Upper(s) == [i \in 1..Len(s) |-> UpperCh(s[i])]

RECURSIVE Concat(_)
\* ''.join(parts)
Concat(parts) == IF parts = <<>> THEN <<>> ELSE Head(parts) \o Concat(Tail(parts))

Drop(s, n) == SubSeq(s, n + 1, Len(s))

Take(s, n) == SubSeq(s, 1, n)

\* s.startswith(p)
StartsWith(s, p) == Len(s) >= Len(p) /\ Take(s, Len(p)) = p

RECURSIVE LStrip(_)
\* str.lstrip
LStrip(s) == IF s # <<>> /\ IsSpace(s[1]) THEN LStrip(Tail(s)) ELSE s

RECURSIVE RStrip(_)
\* str.rstrip
RStrip(s) == IF s # <<>> /\ IsSpace(s[Len(s)]) THEN RStrip(Take(s, Len(s) - 1)) ELSE s

\* str.strip
Strip(s) == LStrip(RStrip(s))

RECURSIVE CollapseSpaces(_)
\* re.sub(r'\s+', ' ', s)
CollapseSpaces(s) ==
    IF s = <<>> THEN <<>>
    ELSE IF IsSpace(s[1]) THEN <<" ">> \o CollapseSpaces(LStrip(s))
    ELSE <<s[1]>> \o CollapseSpaces(Tail(s))

RECURSIVE LeadingDigits(_)
\* the length of the longest prefix of digits
LeadingDigits(s) == IF s # <<>> /\ IsDigit(s[1]) THEN 1 + LeadingDigits(Tail(s)) ELSE 0

\* re.sub(r'^\d+\.\s*', '', s)
StripNumberPrefix(s) ==
    LET n == LeadingDigits(s)
    IN  IF n >= 1 /\ Len(s) > n /\ s[n + 1] = "." THEN LStrip(Drop(s, n + 1)) ELSE s

\* s has a match of r'^\d+\.'
HasNumberPrefix(s) ==
    LET n == LeadingDigits(s) IN n >= 1 /\ Len(s) > n /\ s[n + 1] = "."

(***************************************************************************)
(* Recipe._clean_text: NFKC, html.unescape, whitespace.                    *)
(***************************************************************************)
\* unicodedata.normalize('NFKC', c) of one character: the vulgar fractions
\* decompose to digit, FRACTION SLASH (U+2044), digit.
NFKCChar(c) ==
    IF IsVulgarFraction(c)
    THEN LET f == CHOOSE k \in DOMAIN VulgarFractions : VulgarFractions[k][1] = c
         IN  << VulgarFractions[f][2], "U+2044", VulgarFractions[f][3] >>
    ELSE <<c>>

\* unicodedata.normalize('NFKC', text)
NFKC(text) == Concat([i \in 1..Len(text) |-> NFKCChar(text[i])])

\* html.entities.html5, the names a text of the model can hold:
\* with the semicolon, and the legacy names that need none.
Html5 ==
    { << <<"a","m","p",";">>, "&" >>,     << <<"a","m","p">>, "&" >>,
      << <<"A","M","P",";">>, "&" >>,     << <<"A","M","P">>, "&" >>,
      << <<"l","t",";">>, "<" >>,         << <<"l","t">>, "<" >>,
      << <<"L","T",";">>, "<" >>,         << <<"L","T">>, "<" >>,
      << <<"g","t",";">>, ">" >>,         << <<"g","t">>, ">" >>,
      << <<"G","T",";">>, ">" >>,         << <<"G","T">>, ">" >>,
      << <<"q","u","o","t",";">>, "\"" >>, << <<"q","u","o","t">>, "\"" >>,
      << <<"Q","U","O","T",";">>, "\"" >>, << <<"Q","U","O","T">>, "\"" >>,
      << <<"a","p","o","s",";">>, "'" >> }

InHtml5(name) == \E e \in Html5 : e[1] = name

Html5Char(name) == (CHOOSE e \in Html5 : e[1] = name)[2]

\* a character of the class [^\t\n\f <&#;]
IsRefNameChar(c) == c \notin {"\t", "\n", " ", "<", "&", "#", ";"}

RECURSIVE RefNameLen(_, _)
\* the length of the match of [^\t\n\f <&#;]{1,32} at the start of s
RefNameLen(s, max) ==
    IF max > 0 /\ s # <<>> /\ IsRefNameChar(s[1]) THEN 1 + RefNameLen(Tail(s), max - 1) ELSE 0

\* html._replace_charref for a named reference s (the text after '&')
ReplaceCharref(s) ==
    IF InHtml5(s) THEN <<Html5Char(s)>>
    ELSE LET xs == { x \in 2..(Len(s) - 1) : InHtml5(Take(s, x)) }
         IN  IF xs = {} THEN <<"&">> \o s
             ELSE LET x == CHOOSE y \in xs : \A z \in xs : z <= y
                  IN  <<Html5Char(Take(s, x))>> \o Drop(s, x)

RECURSIVE HtmlUnescape(_)
\* html.unescape(text), for text without numeric references ('&#')
HtmlUnescape(s) ==
    IF s = <<>> THEN <<>>
    ELSE IF s[1] # "&" THEN <<s[1]>> \o HtmlUnescape(Tail(s))
    ELSE LET rest == Tail(s)
             n    == RefNameLen(rest, 32)
             m    == IF Len(rest) > n /\ rest[n + 1] = ";" THEN n + 1 ELSE n
         IN  IF n = 0 THEN <<"&">> \o HtmlUnescape(rest)
             ELSE ReplaceCharref(Take(rest, m)) \o HtmlUnescape(Drop(rest, m))

_clean_text(text) ==
    IF text = <<>> THEN <<>>
    ELSE Strip(CollapseSpaces(HtmlUnescape(NFKC(text))))

(***************************************************************************)
(* Recipe._clean_title                                                     *)
(***************************************************************************)
\* one character against a pattern letter under re.IGNORECASE: the pattern
\* letter i also matches the dotless i
MatchIgnoreCase(c, p) ==
    \/ LowerCh(c) = LowerCh(p)
    \/ (LowerCh(p) = "i" /\ c = "U+0131")

\* s starts with the literal p, under re.IGNORECASE
StartsWithIgnoreCase(s, p) ==
    Len(s) >= Len(p) /\ \A i \in 1..Len(p) : MatchIgnoreCase(s[i], p[i])

RecipePrefix == <<"R","e","c","i","p","e",":">>

\* re.sub(r'^(Recipe:\s*|RECIPE:\s*)', '', s, flags=re.IGNORECASE)
StripRecipePrefix(s) ==
    IF StartsWithIgnoreCase(s, RecipePrefix) THEN LStrip(Drop(s, Len(RecipePrefix))) ELSE s

\* the alternatives of (?:with|and|&|in|on|for|or), in their order
Connectors ==
    << <<"w","i","t","h">>, <<"a","n","d">>, <<"&">>, <<"i","n">>,
       <<"o","n">>, <<"f","o","r">> , <<"o","r">> >>

RECURSIVE SpaceRun(_)
\* the length of the match of \s* at the start of s
SpaceRun(s) == IF s # <<>> /\ IsSpace(s[1]) THEN 1 + SpaceRun(Tail(s)) ELSE 0

\* the length of the match of \s+(?:with|and|&|in|on|for|or)\s+ at the start
\* of s, 0 if there is none
ConnectorMatch(s) ==
    LET a    == SpaceRun(s)
        t    == Drop(s, a)
        hits == { i \in DOMAIN Connectors :
                    /\ StartsWithIgnoreCase(t, Connectors[i])
                    /\ SpaceRun(Drop(t, Len(Connectors[i]))) >= 1 }
    IN  IF a = 0 \/ hits = {} THEN 0
        ELSE LET i == CHOOSE j \in hits : \A k \in hits : j <= k
             IN  a + Len(Connectors[i]) + SpaceRun(Drop(t, Len(Connectors[i])))

RECURSIVE TitleFrom(_, _)
\* str.title, the previous character being cased or not
TitleFrom(s, prevCased) ==
    IF s = <<>> THEN <<>>
    ELSE <<(IF prevCased THEN LowerCh(s[1]) ELSE UpperCh(s[1]))>>
           \o TitleFrom(Tail(s), IsCased(s[1]))

\* str.title
Title(s) == TitleFrom(s, FALSE)

RECURSIVE SplitConnectors(_, _)
\* re.split(r'(\s+(?:with|and|&|in|on|for|or)\s+)', s, flags=re.IGNORECASE):
\* the parts, a separator at every even index; part is the part being read
SplitConnectors(s, part) ==
    IF s = <<>> THEN <<part>>
    ELSE LET n == ConnectorMatch(s)
         IN  IF n > 0 THEN <<part, Take(s, n)>> \o SplitConnectors(Drop(s, n), <<>>)
             ELSE SplitConnectors(Tail(s), Append(part, s[1]))

\* lines 142-151: an all-caps title is title-cased part by part, the
\* connectors lower-cased
TitleCaseParts(title) ==
    LET parts == SplitConnectors(title, <<>>)
    IN  Concat([i \in 1..Len(parts) |->
                  IF ConnectorMatch(parts[i]) > 0 THEN Lower(parts[i]) ELSE Title(parts[i])])

\* len([c for c in title if c.isupper()])
UpperCount(s) == Cardinality({ i \in 1..Len(s) : IsUpper(s[i]) })

\* more than 70% upper case and longer than 3 (below 90 characters the
\* float product len(title) * 0.7 compares as the exact one does)
MostlyUpper(title) == 10 * UpperCount(title) > 7 * Len(title) /\ Len(title) > 3

UntitledRecipe == <<"U","n","t","i","t","l","e","d"," ","R","e","c","i","p","e">>

_clean_title(title) ==
    LET t0 == _clean_text(title)
        t1 == StripNumberPrefix(t0)
        t2 == StripRecipePrefix(t1)
        t3 == IF MostlyUpper(t2) THEN TitleCaseParts(t2) ELSE t2
    IN  IF t0 = <<>> THEN UntitledRecipe
        ELSE Strip(CollapseSpaces(t3))

(***************************************************************************)
(* Recipe._clean_category                                                  *)
(***************************************************************************)
\* category_mapping, in the order of the dict
category_mapping ==
    << << <<"a","i","r"," ","f","r","y","e","r">>, <<"A","i","r"," ","F","r","y","e","r">> >>,
       << <<"c","r","o","c","k","p","o","t">>, <<"C","r","o","c","k","p","o","t">> >>,
       << <<"s","l","o","w"," ","c","o","o","k","e","r">>, <<"S","l","o","w"," ","C","o","o","k","e","r">> >>,
       << <<"i","n","s","t","a","n","t"," ","p","o","t">>, <<"I","n","s","t","a","n","t"," ","P","o","t">> >>,
       << <<"p","r","e","s","s","u","r","e"," ","c","o","o","k","e","r">>, <<"P","r","e","s","s","u","r","e"," ","C","o","o","k","e","r">> >>,
       << <<"o","v","e","n">>, <<"O","v","e","n">> >>,
       << <<"s","t","o","v","e">>, <<"S","t","o","v","e","t","o","p">> >>,
       << <<"g","r","i","l","l">>, <<"G","r","i","l","l","e","d">> >>,
       << <<"n","o"," ","b","a","k","e">>, <<"N","o"," ","B","a","k","e">> >>,
       << <<"v","e","g","e","t","a","r","i","a","n">>, <<"V","e","g","e","t","a","r","i","a","n">> >>,
       << <<"v","e","g","a","n">>, <<"V","e","g","a","n">> >>,
       << <<"k","e","t","o">>, <<"K","e","t","o">> >>,
       << <<"l","o","w"," ","c","a","r","b">>, <<"L","o","w"," ","C","a","r","b">> >>,
       << <<"g","l","u","t","e","n"," ","f","r","e","e">>, <<"G","l","u","t","e","n"," ","F","r","e","e">> >>,
       << <<"d","a","i","r","y"," ","f","r","e","e">>, <<"D","a","i","r","y"," ","F","r","e","e">> >> >>

\* key in s
Contains(s, key) ==
    \E i \in 0..(Len(s) - Len(key)) : SubSeq(s, i + 1, i + Len(key)) = key

_clean_category(category) ==
    LET c    == _clean_text(category)
        low  == Lower(c)
        hits == { i \in DOMAIN category_mapping : Contains(low, category_mapping[i][1]) }
    IN  IF hits # {}
        THEN category_mapping[CHOOSE i \in hits : \A j \in hits : i <= j][2]
        ELSE Title(c)

RECURSIVE SplitOn(_, _, _)
\* str.split(sep) for a one-character separator; part is the part being read
SplitOn(s, sep, part) ==
    IF s = <<>> THEN <<part>>
    ELSE IF s[1] = sep THEN <<part>> \o SplitOn(Tail(s), sep, <<>>)
    ELSE SplitOn(Tail(s), sep, Append(part, s[1]))

RECURSIVE SelectNonEmpty(_)
SelectNonEmpty(parts) ==
    IF parts = <<>> THEN <<>>
    ELSE IF Head(parts) = <<>> THEN SelectNonEmpty(Tail(parts))
    ELSE <<Head(parts)>> \o SelectNonEmpty(Tail(parts))

\* line 55: [self._clean_category(cat.strip()) for cat in text.split(',') if cat.strip()]
CleanCategories(text) ==
    LET split == SplitOn(text, ",", <<>>)
        parts == SelectNonEmpty([i \in 1..Len(split) |-> Strip(split[i])])
    IN  [i \in 1..Len(parts) |-> _clean_category(parts[i])]

(***************************************************************************)
(* Recipe._clean_time, Recipe._clean_servings                              *)
(***************************************************************************)
\* \b between s[n] (a word character) and what follows it
WordEndsAt(s, n) == n = Len(s) \/ ~IsWordChar(s[n + 1])

\* the match of (\d+)\s*<word>s?\b at the start of s: its length, 0 if none
UnitMatch(s, word) ==
    LET d == LeadingDigits(s)
        a == d + SpaceRun(Drop(s, d))
        t == Drop(s, a)
        n == Len(word)
    IN  IF d = 0 \/ ~StartsWithIgnoreCase(t, word) THEN 0
        ELSE IF Len(t) > n /\ MatchIgnoreCase(t[n + 1], "s") /\ WordEndsAt(t, n + 1)
             THEN a + n + 1
        ELSE IF WordEndsAt(t, n) THEN a + n
        ELSE 0

RECURSIVE SubUnit(_, _, _)
\* re.sub(r'(\d+)\s*<word>s?\b', r'\1 <full>', s, flags=re.IGNORECASE)
SubUnit(s, word, full) ==
    IF s = <<>> THEN <<>>
    ELSE LET n == UnitMatch(s, word)
         IN  IF n > 0
             THEN Take(s, LeadingDigits(s)) \o <<" ">> \o full \o SubUnit(Drop(s, n), word, full)
             ELSE <<s[1]>> \o SubUnit(Tail(s), word, full)

\* the match of (\d+)\s*h\s*(\d+)\s*m\b at the start of s: the offsets of the
\* second number and the length, <<0, 0, 0>> if none
HourMinuteMatch(s) ==
    LET d1 == LeadingDigits(s)
        a  == d1 + SpaceRun(Drop(s, d1))
        t  == Drop(s, a)
        b  == 1 + SpaceRun(Drop(t, 1))
        u  == Drop(t, b)
        d2 == LeadingDigits(u)
        c  == d2 + SpaceRun(Drop(u, d2))
        v  == Drop(u, c)
    IN  IF /\ d1 > 0 /\ t # <<>> /\ MatchIgnoreCase(t[1], "h")
           /\ d2 > 0 /\ v # <<>> /\ MatchIgnoreCase(v[1], "m") /\ WordEndsAt(v, 1)
        THEN <<a + b, d2, a + b + c + 1>>
        ELSE <<0, 0, 0>>

RECURSIVE SubHourMinute(_)
\* re.sub(r'(\d+)\s*h\s*(\d+)\s*m\b', r'\1 hours \2 minutes', s, flags=re.IGNORECASE)
SubHourMinute(s) ==
    IF s = <<>> THEN <<>>
    ELSE LET m == HourMinuteMatch(s)
         IN  IF m[3] > 0
             THEN Take(s, LeadingDigits(s)) \o <<" ","h","o","u","r","s"," ">> \o SubSeq(s, m[1] + 1, m[1] + m[2])
                    \o <<" ","m","i","n","u","t","e","s">> \o SubHourMinute(Drop(s, m[3]))
             ELSE <<s[1]>> \o SubHourMinute(Tail(s))

\* the match of (\d+)\s+<word> at the start of s: its length, 0 if none
DoubledMatch(s, word) ==
    LET d  == LeadingDigits(s)
        sp == SpaceRun(Drop(s, d))
    IN  IF d > 0 /\ sp > 0 /\ StartsWithIgnoreCase(Drop(s, d + sp), word)
        THEN d + sp + Len(word) ELSE 0

RECURSIVE SubDoubled(_, _, _)
\* re.sub(r'(\d+)\s+<word>', r'\1 <full>', s, flags=re.IGNORECASE)
SubDoubled(s, word, full) ==
    IF s = <<>> THEN <<>>
    ELSE LET n == DoubledMatch(s, word)
         IN  IF n > 0
             THEN Take(s, LeadingDigits(s)) \o <<" ">> \o full \o SubDoubled(Drop(s, n), word, full)
             ELSE <<s[1]>> \o SubDoubled(Tail(s), word, full)

_clean_time(time_str) ==
    LET t0 == _clean_text(time_str)
        t1 == SubUnit(t0, <<"m","i","n">>, <<"m","i","n","u","t","e","s">>)
        t2 == SubUnit(t1, <<"h","r">>, <<"h","o","u","r","s">>)
        t3 == SubHourMinute(t2)
        t4 == SubDoubled(t3, <<"m","i","n","u","t","e","s","u","t","e","s">>, <<"m","i","n","u","t","e","s">>)
        t5 == SubDoubled(t4, <<"h","o","u","r","s","o","u","r","s">>, <<"h","o","u","r","s">>)
    IN  IF t0 = <<>> THEN <<>> ELSE t5

\* re.sub(r'^(Yield:\s*|Serves:\s*)', '', servings, flags=re.IGNORECASE)
_clean_servings(servings) ==
    LET s == _clean_text(servings)
    IN  IF StartsWithIgnoreCase(s, <<"Y","i","e","l","d",":">>) THEN LStrip(Drop(s, 6))
        ELSE IF StartsWithIgnoreCase(s, <<"S","e","r","v","e","s",":">>) THEN LStrip(Drop(s, 7))
        ELSE s

(***************************************************************************)
(* Recipe._clean_ingredient                                                *)
(***************************************************************************)
\* fraction_map, in the order of the dict
fraction_map ==
    << << "U+00BD", <<"1","/","2">> >>, << "U+2153", <<"1","/","3">> >>, << "U+2154", <<"2","/","3">> >>,
       << "U+00BC", <<"1","/","4">> >>, << "U+00BE", <<"3","/","4">> >>, << "U+2155", <<"1","/","5">> >>,
       << "U+2156", <<"2","/","5">> >>, << "U+2157", <<"3","/","5">> >>, << "U+2158", <<"4","/","5">> >>,
       << "U+2159", <<"1","/","6">> >>, << "U+215A", <<"5","/","6">> >>, << "U+215B", <<"1","/","8">> >>,
       << "U+215C", <<"3","/","8">> >>, << "U+215D", <<"5","/","8">> >>, << "U+215E", <<"7","/","8">> >> >>

RECURSIVE ReplaceChar(_, _, _)
\* str.replace(glyph, ascii) for a one-character glyph
ReplaceChar(s, glyph, ascii) ==
    IF s = <<>> THEN <<>>
    ELSE (IF s[1] = glyph THEN ascii ELSE <<s[1]>>) \o ReplaceChar(Tail(s), glyph, ascii)

RECURSIVE ReplaceFractions(_, _)
\* lines 234-235: the replacements of fraction_map from entry i on
ReplaceFractions(s, i) ==
    IF i > Len(fraction_map) THEN s
    ELSE ReplaceFractions(ReplaceChar(s, fraction_map[i][1], fraction_map[i][2]), i + 1)

\* abbrev_map, in the order of the dict: the words r'\b<word>\b' matches
\* (letters compared under re.IGNORECASE) and the replacement
abbrev_map ==
    << << {<<"t">>}, <<"t","b","s","p">> >>,
       << {<<"t","s","p">>}, <<"t","s","p">> >>,
       << {<<"t","b","s","p">>}, <<"t","b","s","p">> >>,
       << {<<"c">>}, <<"c","u","p">> >>,
       << {<<"c">>}, <<"c","u","p">> >>,
       << {<<"c","u","p">>, <<"c","u","p","s">>}, <<"c","u","p">> >>,
       << {<<"l","b">>}, <<"l","b">> >>,
       << {<<"l","b","s">>}, <<"l","b">> >>,
       << {<<"p","o","u","n","d">>, <<"p","o","u","n","d","s">>}, <<"l","b">> >>,
       << {<<"o","z">>}, <<"o","z">> >>,
       << {<<"o","u","n","c","e">>, <<"o","u","n","c","e","s">>}, <<"o","z">> >>,
       << {<<"p","k","g">>}, <<"p","a","c","k","a","g","e">> >>,
       << {<<"p","k","g","s">>}, <<"p","a","c","k","a","g","e">> >> >>

RECURSIVE WordRun(_)
\* the length of the match of \w* at the start of s
WordRun(s) == IF s # <<>> /\ IsWordChar(s[1]) THEN 1 + WordRun(Tail(s)) ELSE 0

RECURSIVE AbbrevWord(_, _)
\* one whole word (a maximal run of \w) through the substitutions of
\* abbrev_map from entry i on: r'\b<word>\b' matches whole words only
AbbrevWord(w, i) ==
    IF i > Len(abbrev_map) THEN w
    ELSE AbbrevWord(IF Lower(w) \in abbrev_map[i][1] THEN abbrev_map[i][2] ELSE w, i + 1)

RECURSIVE ReplaceAbbrevs(_)
\* lines 246-247: every re.sub of abbrev_map, applied to the text
ReplaceAbbrevs(s) ==
    IF s = <<>> THEN <<>>
    ELSE LET n == WordRun(s)
         IN  IF n > 0 THEN AbbrevWord(Take(s, n), 1) \o ReplaceAbbrevs(Drop(s, n))
             ELSE <<s[1]>> \o ReplaceAbbrevs(Tail(s))

_clean_ingredient(ingredient) ==
    LET t0 == _clean_text(ingredient)
    IN  IF t0 = <<>> THEN <<>>
        ELSE ReplaceAbbrevs(ReplaceFractions(t0, 1))

(***************************************************************************)
(* Recipe._clean_instructions.  The instructions element is given by its   *)
(* text fragments, in order, one more than it has <br> tags (str(elem)     *)
(* writes every <br> tag as '<br/>').                                      *)
(***************************************************************************)
\* the match of (?<=[.!?])\s+(?=[A-Z]) at s[i]: its length, 0 if none
SentenceBreak(s, i) ==
    LET n == SpaceRun(Drop(s, i - 1))
    IN  IF /\ i > 1 /\ s[i - 1] \in {".", "!", "?"}
           /\ n > 0 /\ Len(s) >= i + n /\ IsAsciiUpper(s[i + n])
        THEN n ELSE 0

RECURSIVE SplitSentences(_, _, _)
\* re.split(r'(?<=[.!?])\s+(?=[A-Z])', s), read from s[i] on; part is the
\* part being read
SplitSentences(s, i, part) ==
    IF i > Len(s) THEN <<part>>
    ELSE LET n == SentenceBreak(s, i)
         IN  IF n > 0 THEN <<part>> \o SplitSentences(s, i + n, <<>>)
             ELSE SplitSentences(s, i + 1, Append(part, s[i]))

\* the alternatives of action_words
action_words ==
    { <<"h","e","a","t">>, <<"c","o","o","k">>, <<"a","d","d">>, <<"m","i","x">>, <<"s","t","i","r">>, <<"c","o","m","b","i","n","e">>, <<"b","a","k","e">>, <<"f","r","y">>,
      <<"g","r","i","l","l">>, <<"r","o","a","s","t">>, <<"s","i","m","m","e","r">>, <<"b","o","i","l">>, <<"s","a","u","t","U+00E9">>, <<"s","e","a","s","o","n">>, <<"s","e","r","v","e">>,
      <<"r","e","m","o","v","e">>, <<"p","l","a","c","e">>, <<"p","u","t">>, <<"s","e","t">>, <<"p","r","e","h","e","a","t">>, <<"p","r","e","p","a","r","e">>, <<"c","u","t">>,
      <<"c","h","o","p">>, <<"s","l","i","c","e">>, <<"d","i","c","e">>, <<"m","i","n","c","e">> }

\* re.match(action_words, sentence, re.IGNORECASE)
StartsWithAction(sentence) == \E w \in action_words : StartsWithIgnoreCase(sentence, w)

RECURSIVE MergeSentences(_, _)
\* lines 277-295: the steps of the sentences, current_step being read
MergeSentences(sentences, current_step) ==
    IF sentences = <<>>
    THEN IF current_step # <<>> THEN <<Strip(current_step)>> ELSE <<>>
    ELSE LET sentence == Strip(Head(sentences))
         IN  IF sentence = <<>> THEN MergeSentences(Tail(sentences), current_step)
             ELSE IF StartsWithAction(sentence) /\ current_step # <<>>
             THEN <<Strip(current_step)>> \o MergeSentences(Tail(sentences), sentence)
             ELSE IF current_step # <<>>
             THEN MergeSentences(Tail(sentences), current_step \o <<" ">> \o sentence)
             ELSE MergeSentences(Tail(sentences), sentence)

\* lines 300-311: one step cleaned; <<>> when the step is skipped, else the
\* one step appended
CleanStep(raw) ==
    LET s0 == Strip(raw)
        s1 == StripNumberPrefix(s0)
        s2 == IF s1 # <<>> /\ s1[Len(s1)] \notin {".", "!", "?"} THEN Append(s1, ".") ELSE s1
    IN  IF s0 = <<>> THEN <<>> ELSE <<s2>>

\* lines 264-295: the steps before their cleaning
RawSteps(frags) ==
    IF Len(frags) > 1
    THEN SelectNonEmpty([i \in 1..Len(frags) |-> _clean_text(frags[i])])
    ELSE MergeSentences(SplitSentences(_clean_text(Concat(frags)), 1, <<>>), <<>>)

_clean_instructions(frags) ==
    LET steps == RawSteps(frags)
    IN  Concat([i \in 1..Len(steps) |-> CleanStep(steps[i])])

(***************************************************************************)
(* Recipe._clean_notes.  The notes element is given by the texts of its    *)
(* <p> elements, or by its whole text when it has none.                    *)
(***************************************************************************)
\* the match of \n\s*\n|\. {2,} at the start of s: its length, 0 if none
NoteBreak(s) ==
    LET blank == { n \in 2..Len(s) :
                     /\ s[1] = "\n" /\ s[n] = "\n"
                     /\ \A k \in 2..(n - 1) : IsSpace(s[k]) }
        dots  == { n \in 3..Len(s) :
                     /\ s[1] = "."
                     /\ \A k \in 2..n : s[k] = " "
                     /\ (n = Len(s) \/ s[n + 1] # " ") }
    IN  IF blank # {} THEN CHOOSE n \in blank : \A m \in blank : m <= n
        ELSE IF dots # {} THEN CHOOSE n \in dots : TRUE
        ELSE 0

RECURSIVE SplitNotes(_, _)
\* re.split(r'\n\s*\n|\. {2,}', s); part is the part being read
SplitNotes(s, part) ==
    IF s = <<>> THEN <<part>>
    ELSE LET n == NoteBreak(s)
         IN  IF n > 0 THEN <<part>> \o SplitNotes(Drop(s, n), <<>>)
             ELSE SplitNotes(Tail(s), Append(part, s[1]))

_clean_notes(hasP, texts) ==
    IF hasP THEN SelectNonEmpty([i \in 1..Len(texts) |-> _clean_text(texts[i])])
    ELSE LET text == _clean_text(Concat(texts))
         IN  IF text = <<>> THEN <<>>
             ELSE LET notes == SplitNotes(text, <<>>)
                  IN  SelectNonEmpty([i \in 1..Len(notes) |-> _clean_text(notes[i])])

(***************************************************************************)
(* Recipe._clean_nutrition.  The nutrition element is given by its text    *)
(* fragments between <br> tags, as the instructions element is.            *)
(***************************************************************************)
\* _clean_text of a piece of the serialized element that holds no tag: the
\* serializer has escaped its '&', '<' and '>', and html.unescape restores
\* exactly these
CleanSerialized(text) ==
    IF text = <<>> THEN <<>> ELSE Strip(CollapseSpaces(NFKC(text)))

\* s.find(c), 0 if c is not in s
IndexOf(s, c) ==
    IF \E i \in DOMAIN s : s[i] = c
    THEN CHOOSE i \in DOMAIN s : s[i] = c /\ \A j \in 1..(i - 1) : s[j] # c
    ELSE 0

\* lines 365-371: one cleaned item; <<>> when it is dropped, else the item
NutritionItem(item_text) ==
    LET k == IndexOf(item_text, ":")
    IN  IF k = 0 THEN <<>>
        ELSE << Title(Strip(Take(item_text, k - 1))) \o <<":", " ">>
                  \o Strip(Drop(item_text, k)) >>

RECURSIVE SplitDelims(_, _)
\* re.split(r'[,;]|\n', s); part is the part being read
SplitDelims(s, part) ==
    IF s = <<>> THEN <<part>>
    ELSE IF s[1] \in {",", ";", "\n"} THEN <<part>> \o SplitDelims(Tail(s), <<>>)
    ELSE SplitDelims(Tail(s), Append(part, s[1]))

_clean_nutrition(frags) ==
    LET text  == _clean_text(Concat(frags))
        n     == Len(frags)
        split == SplitDelims(text, <<>>)
        items == IF n > 1
                 THEN [i \in 1..n |->
                         IF i = 1 \/ i = n THEN _clean_text(frags[i])
                         ELSE CleanSerialized(frags[i])]
                 ELSE [i \in 1..Len(split) |-> _clean_text(split[i])]
    IN  IF text = <<>> THEN <<>>
        ELSE Concat([i \in 1..Len(items) |-> NutritionItem(items[i])])

(***************************************************************************)
(* Recipe: the record, and Recipe._parse_html.                             *)
(*                                                                         *)
(* A source file is given by what BeautifulSoup finds in it: for every     *)
(* itemprop marker whether it is there and the text (get_text) it holds.   *)
(* failAt is the statement of the try block that raises (0: none raises):  *)
(* the except clause of line 109 ends the parse there and keeps what the   *)
(* statements before it have assigned.                                     *)
(***************************************************************************)
\* the statements of the try block of _parse_html, in their order
ParseStages ==
    << "read", "title", "categories", "prep_time", "cook_time", "servings", "source",
       "ingredients", "instructions", "notes", "nutrition", "image" >>

StageOf(stage) == Pos(ParseStages, stage)

\* Recipe.__init__, lines 24-36
EmptyRecipe(html_file) ==
    [ source_file |-> html_file, title |-> <<>>, categories |-> <<>>, prep_time |-> <<>>,
      cook_time |-> <<>>, servings |-> <<>>, source_url |-> <<>>, source_name |-> <<>>,
      ingredients |-> <<>>, instructions |-> <<>>, notes |-> <<>>, nutrition |-> <<>>,
      image_path |-> <<>> ]

\* Recipe._parse_html on the file f, named html_file
_parse_html(html_file, f) ==
    LET k == f.failAt
        ran(stage) == k = 0 \/ StageOf(stage) < k
        e == EmptyRecipe(html_file)
    IN  [ e EXCEPT
            !.title        = IF ran("title") /\ f.name.present
                             THEN _clean_title(Strip(f.name.text)) ELSE @,
            !.categories   = IF ran("categories") /\ f.category.present
                             THEN CleanCategories(Strip(f.category.text)) ELSE @,
            !.prep_time    = IF ran("prep_time") /\ f.prepTime.present
                             THEN _clean_time(Strip(f.prepTime.text)) ELSE @,
            !.cook_time    = IF ran("cook_time") /\ f.cookTime.present
                             THEN _clean_time(Strip(f.cookTime.text)) ELSE @,
            !.servings     = IF ran("servings") /\ f.recipeYield.present
                             THEN _clean_servings(Strip(f.recipeYield.text)) ELSE @,
            !.source_url   = IF ran("source") /\ f.url.present THEN Strip(f.url.href) ELSE @,
            !.source_name  = IF ran("source") /\ f.url.present /\ f.url.author.present
                             THEN _clean_text(Strip(f.url.author.text)) ELSE @,
            !.ingredients  = IF ran("ingredients")
                             THEN SelectNonEmpty([i \in 1..Len(f.ingredients) |->
                                     _clean_ingredient(Strip(f.ingredients[i]))])
                             ELSE @,
            !.instructions = IF ran("instructions") /\ f.instructions.present
                             THEN _clean_instructions(f.instructions.frags) ELSE @,
            !.notes        = IF ran("notes") /\ f.notes.present
                             THEN _clean_notes(f.notes.hasP, f.notes.texts) ELSE @,
            !.nutrition    = IF ran("nutrition") /\ f.nutrition.present
                             THEN _clean_nutrition(f.nutrition.frags) ELSE @,
            !.image_path   = IF ran("image") /\ f.image.present THEN f.image.src ELSE @ ]

(***************************************************************************)
(* Recipe._escape_html and Recipe.to_clean_html.                           *)
(*                                                                         *)
(* A document is a sequence of lines, a line a sequence of pieces.  A      *)
(* piece is a literal of the template ("tpl"), a text that comes from a    *)
(* recipe's fields as it is written ("txt"), or a formatted number         *)
(* ("num").                                                                *)
(***************************************************************************)
Tpl(lit) == [kind |-> "tpl", lit |-> lit, text |-> <<>>]

Txt(text) == [kind |-> "txt", lit |-> "", text |-> text]

Num(digits) == [kind |-> "num", lit |-> "", text |-> digits]

\* a line that is one literal
Lit(lit) == << Tpl(lit) >>

LitLines(lits) == [i \in 1..Len(lits) |-> Lit(lits[i])]

\* a line that is a text between two literals
Wrap(pre, text, post) == << Tpl(pre), Txt(text), Tpl(post) >>

\* _escape_html with its replacements in another order: '&' last
EscapeAmpLast(text) ==
    ReplaceChar(ReplaceChar(ReplaceChar(ReplaceChar(ReplaceChar(text,
        "<", <<"&","l","t",";">>), ">", <<"&","g","t",";">>), "\"", <<"&","q","u","o","t",";">>), "'", <<"&","#","x","2","7",";">>), "&", <<"&","a","m","p",";">>)

_escape_html(text) ==
    IF text = <<>> THEN <<>>
    ELSE ReplaceChar(ReplaceChar(ReplaceChar(ReplaceChar(ReplaceChar(text,
             "&", <<"&","a","m","p",";">>), "<", <<"&","l","t",";">>), ">", <<"&","g","t",";">>), "\"", <<"&","q","u","o","t",";">>), "'", <<"&","#","x","2","7",";">>)

RECURSIVE JoinPieces(_, _)
\* sep.join(texts), the texts as pieces of their own
JoinPieces(texts, sep) ==
    IF texts = <<>> THEN <<>>
    ELSE IF Len(texts) = 1 THEN << Txt(texts[1]) >>
    ELSE << Txt(texts[1]), Tpl(sep) >> \o JoinPieces(Tail(texts), sep)

\* lines 383-403 of to_clean_html: the style sheet and the opening of the body
RecipeStyleLines ==
    << "<style>",
       "body { font-family: -apple-system, BlinkMacSystemFont, \"Segoe UI\", sans-serif; margin: 20px; line-height: 1.6; color: #1d1d1f; }",
       "h1 { color: #1d1d1f; border-bottom: 3px solid #007aff; padding-bottom: 12px; margin-bottom: 20px; font-size: 28px; }",
       "h2 { color: #007aff; margin-top: 30px; margin-bottom: 15px; font-size: 20px; font-weight: 600; }",
       ".metadata { background: linear-gradient(135deg, #f5f5f7 0%, #e8e8ea 100%); padding: 20px; border-radius: 12px; margin: 20px 0; border-left: 4px solid #007aff; }",
       ".metadata p { margin: 8px 0; }",
       ".metadata strong { color: #1d1d1f; }",
       ".ingredients { background: linear-gradient(135deg, #f0f9ff 0%, #e0f2fe 100%); padding: 20px; border-radius: 12px; margin: 20px 0; border-left: 4px solid #0ea5e9; }",
       ".instructions { margin: 20px 0; }",
       ".instructions ol { padding-left: 0; counter-reset: step-counter; }",
       ".instructions li { list-style: none; counter-increment: step-counter; margin-bottom: 15px; padding: 15px; background-color: #fafafa; border-radius: 8px; border-left: 4px solid #10b981; position: relative; }",
       ".instructions li::before { content: counter(step-counter); position: absolute; left: -25px; top: 15px; background: #10b981; color: white; width: 20px; height: 20px; border-radius: 50%; display: flex; align-items: center; justify-content: center; font-size: 12px; font-weight: bold; }",
       ".notes { background: linear-gradient(135deg, #fffbf0 0%, #fef3c7 100%); padding: 20px; border-radius: 12px; margin: 20px 0; border-left: 4px solid #f59e0b; }",
       ".nutrition { background: linear-gradient(135deg, #f0fdf4 0%, #dcfce7 100%); padding: 20px; border-radius: 12px; margin: 20px 0; border-left: 4px solid #22c55e; }",
       "ul { padding-left: 20px; }",
       "li { margin-bottom: 8px; }",
       "a { color: #007aff; text-decoration: none; }",
       "a:hover { text-decoration: underline; }",
       ".source { margin: 25px 0; padding: 15px; background-color: #f8f9fa; border-radius: 8px; border-left: 4px solid #6c757d; }",
       "</style>",
       "</head><body>" >>

\* lines 572-587 of _create_table_of_contents: the head, the style sheet and the heading
TocHeadLines ==
    << "<!DOCTYPE html>",
       "<html><head><meta charset=\"UTF-8\">",
       "<title>Recipe Collection - Table of Contents</title>",
       "<style>",
       "body { font-family: -apple-system, BlinkMacSystemFont, sans-serif; margin: 20px; }",
       "h1 { color: #1d1d1f; border-bottom: 2px solid #007aff; padding-bottom: 10px; }",
       "h2 { color: #007aff; margin-top: 25px; }",
       ".recipe-list { columns: 2; column-gap: 30px; }",
       ".recipe-item { break-inside: avoid; margin-bottom: 15px; padding: 10px; background-color: #f5f5f7; border-radius: 8px; }",
       ".recipe-title { font-weight: bold; font-size: 16px; margin-bottom: 5px; }",
       ".recipe-meta { font-size: 14px; color: #666; }",
       ".stats { background-color: #e8f4fd; padding: 15px; border-radius: 8px; margin: 20px 0; }",
       "</style>",
       "</head><body>",
       "<h1>Recipe Collection</h1>" >>

\* Recipe.to_clean_html: the lines joined by '\n'
to_clean_html(r) ==
    LET esc(t) == _escape_html(t)
        metadata ==
            IF r.prep_time # <<>> \/ r.cook_time # <<>> \/ r.servings # <<>> \/ r.categories # <<>>
            THEN << Lit("<div class=\"metadata\">") >>
                 \o (IF r.prep_time # <<>>
                     THEN << Wrap("<p><strong>Prep Time:</strong> ", esc(r.prep_time), "</p>") >>
                     ELSE <<>>)
                 \o (IF r.cook_time # <<>>
                     THEN << Wrap("<p><strong>Cook Time:</strong> ", esc(r.cook_time), "</p>") >>
                     ELSE <<>>)
                 \o (IF r.servings # <<>>
                     THEN << Wrap("<p><strong>Servings:</strong> ", esc(r.servings), "</p>") >>
                     ELSE <<>>)
                 \o (IF r.categories # <<>>
                     THEN << << Tpl("<p><strong>Categories:</strong> ") >>
                             \o JoinPieces([i \in 1..Len(r.categories) |-> esc(r.categories[i])], ", ")
                             \o << Tpl("</p>") >> >>
                     ELSE <<>>)
                 \o << Lit("</div>") >>
            ELSE <<>>
        ingredients ==
            IF r.ingredients # <<>>
            THEN << Lit("<div class=\"ingredients\">"), Lit("<h2>Ingredients</h2>"), Lit("<ul>") >>
                 \o [i \in 1..Len(r.ingredients) |-> Wrap("<li>", esc(r.ingredients[i]), "</li>")]
                 \o << Lit("</ul>"), Lit("</div>") >>
            ELSE <<>>
        instructions ==
            IF r.instructions # <<>>
            THEN << Lit("<h2>Instructions</h2>"), Lit("<div class=\"instructions\">"), Lit("<ol>") >>
                 \o [i \in 1..Len(r.instructions) |-> Wrap("<li>", esc(r.instructions[i]), "</li>")]
                 \o << Lit("</ol>"), Lit("</div>") >>
            ELSE <<>>
        notes ==
            IF r.notes # <<>>
            THEN << Lit("<div class=\"notes\">"), Lit("<h2>Notes</h2>") >>
                 \o [i \in 1..Len(r.notes) |-> Wrap("<p>", esc(r.notes[i]), "</p>")]
                 \o << Lit("</div>") >>
            ELSE <<>>
        source_text == IF r.source_name # <<>> THEN r.source_name ELSE r.source_url
        source ==
            IF r.source_name # <<>> \/ r.source_url # <<>>
            THEN << Lit("<div class=\"source\">"), Lit("<h2>Source</h2>") >>
                 \o (IF r.source_url # <<>>
                     THEN << << Tpl("<p><a href=\""), Txt(esc(r.source_url)),
                                Tpl("\" target=\"_blank\">"), Txt(esc(source_text)),
                                Tpl("</a></p>") >> >>
                     ELSE << Wrap("<p>", esc(r.source_name), "</p>") >>)
                 \o << Lit("</div>") >>
            ELSE <<>>
        nutrition ==
            IF r.nutrition # <<>>
            THEN << Lit("<div class=\"nutrition\">"), Lit("<h2>Nutrition Information</h2>") >>
                 \o [i \in 1..Len(r.nutrition) |-> Wrap("<p>", esc(r.nutrition[i]), "</p>")]
                 \o << Lit("</div>") >>
            ELSE <<>>
    IN  << Lit("<!DOCTYPE html>"),
           Lit("<html><head><meta charset=\"UTF-8\">"),
           Wrap("<title>", esc(r.title), "</title>") >>
        \o LitLines(RecipeStyleLines)
        \o << Wrap("<h1>", esc(r.title), "</h1>") >>
        \o metadata \o ingredients \o instructions \o notes \o source \o nutrition
        \o << Lit("</body></html>") >>

(***************************************************************************)
(* PaprikaToAppleNotesConverter._make_safe_filename and the output paths.  *)
(***************************************************************************)
RECURSIVE RemoveChars(_, _)
\* re.sub(r'[<set>]', '', s)
RemoveChars(s, set) ==
    IF s = <<>> THEN <<>>
    ELSE (IF s[1] \in set THEN <<>> ELSE <<s[1]>>) \o RemoveChars(Tail(s), set)

RECURSIVE UnderscoreSpaces(_)
\* re.sub(r'\s+', '_', s)
UnderscoreSpaces(s) ==
    IF s = <<>> THEN <<>>
    ELSE IF IsSpace(s[1]) THEN <<"_">> \o UnderscoreSpaces(LStrip(s))
    ELSE <<s[1]>> \o UnderscoreSpaces(Tail(s))

_make_safe_filename(title) ==
    LET s1 == RemoveChars(title, {"<", ">", ":", "\"", "/", "\\", "|", "?", "*"})
        s2 == ReplaceChar(s1, "&", <<"a","n","d">>)
        s3 == UnderscoreSpaces(Strip(s2))
        s4 == IF Len(s3) > 100 THEN Take(s3, 100) ELSE s3
    IN  IF s4 = <<>> THEN <<"u","n","t","i","t","l","e","d","_","r","e","c","i","p","e">> ELSE s4

\* line 552: output_dir / f"{safe_filename}.html", as the name in output_dir
OutputFile(title) == _make_safe_filename(title) \o <<".","h","t","m","l">>

\* line 633: the name of the table of contents in output_dir
TocFile == <<"0","0","_","R","e","c","i","p","e","_","C","o","l","l","e","c","t","i","o","n","_","T","a","b","l","e","_","o","f","_","C","o","n","t","e","n","t","s",".","h","t","m","l">>

(***************************************************************************)
(* PaprikaToAppleNotesConverter._create_table_of_contents.                 *)
(***************************************************************************)
RECURSIVE StrLess(_, _)
\* a < b for two str: by code points, a proper prefix first
StrLess(a, b) ==
    IF b = <<>> THEN FALSE
    ELSE IF a = <<>> THEN TRUE
    ELSE IF a[1] = b[1] THEN StrLess(Tail(a), Tail(b))
    ELSE Ord(a[1]) < Ord(b[1])

\* the sort key of line 569 with the lower() left out
RawTitleKey(r) == r.title

\* key=lambda r: r.title.lower()
TitleKey(r) == Lower(r.title)

RECURSIVE InsertSorted(_, _)
\* x into the sorted list s, after the elements whose key is not greater
InsertSorted(s, x) ==
    IF s = <<>> THEN <<x>>
    ELSE IF StrLess(TitleKey(x), TitleKey(s[1])) THEN <<x>> \o s
    ELSE <<s[1]>> \o InsertSorted(Tail(s), x)

RECURSIVE SortedByTitle(_)
\* sorted(recipes, key=...): stable
SortedByTitle(rs) ==
    IF rs = <<>> THEN <<>>
    ELSE InsertSorted(SortedByTitle(Take(rs, Len(rs) - 1)), rs[Len(rs)])

RECURSIVE FormatInt(_)
\* f'{n}' for an int n >= 0
FormatInt(n) ==
    IF n < 10 THEN <<DigitSeq[n + 1]>>
    ELSE FormatInt(n \div 10) \o <<DigitSeq[(n % 10) + 1]>>

\* the count of categories, every occurrence counted
CategoryOccurrences(rs) ==
    LET RECURSIVE Sum(_)
        Sum(i) == IF i > Len(rs) THEN 0 ELSE Len(rs[i].categories) + Sum(i + 1)
    IN  Sum(1)

\* lines 591-593: len(categories) of the set of all the recipes' categories
CategoryCount(rs) ==
    Cardinality(UNION { Range(rs[i].categories) : i \in DOMAIN rs })

\* line 605: recipe.title[0].upper() if recipe.title else '#'
FirstLetter(r) == IF r.title # <<>> THEN <<UpperCh(r.title[1])>> ELSE <<"#">>

\* lines 616-625: the recipe-meta line of one recipe, if it has one
TocMetaLine(r) ==
    LET cats == IF r.categories # <<>>
                THEN << << Tpl("Categories: ") >> \o JoinPieces(r.categories, ", ") >>
                ELSE <<>>
        prep == IF r.prep_time # <<>> THEN << << Tpl("Prep: "), Txt(r.prep_time) >> >> ELSE <<>>
        cook == IF r.cook_time # <<>> THEN << << Tpl("Cook: "), Txt(r.cook_time) >> >> ELSE <<>>
        meta_parts == cats \o prep \o cook
        RECURSIVE Joined(_)
        \* " U+2022 ".join(meta_parts), U+2022 being the bullet
        Joined(i) ==
            IF i > Len(meta_parts) THEN <<>>
            ELSE (IF i > 1 THEN << Tpl(" U+2022 ") >> ELSE <<>>) \o meta_parts[i] \o Joined(i + 1)
    IN  IF meta_parts = <<>> THEN <<>>
        ELSE << << Tpl("<div class=\"recipe-meta\">") >> \o Joined(1) \o << Tpl("</div>") >> >>

RECURSIVE TocEntries(_, _)
\* lines 604-627: the lines of the recipes rs, current_letter being the
\* letter of the section that is open
TocEntries(rs, current_letter) ==
    IF rs = <<>> THEN <<>>
    ELSE LET recipe == Head(rs)
             first_letter == FirstLetter(recipe)
             heading ==
                 IF first_letter # current_letter
                 THEN (IF current_letter # <<>> THEN << Lit("</div>") >> ELSE <<>>)
                      \o << Wrap("<h2>", first_letter, "</h2>") >>
                 ELSE <<>>
         IN  heading
             \o << Lit("<div class=\"recipe-item\">"),
                   Wrap("<div class=\"recipe-title\">", _escape_html(recipe.title), "</div>") >>
             \o TocMetaLine(recipe)
             \o << Lit("</div>") >>
             \o TocEntries(Tail(rs), first_letter)

\* lines 571-630: html_parts for the sorted recipes
TocLines(sorted_rs) ==
    LitLines(TocHeadLines)
    \o << Lit("<div class=\"stats\">"),
          << Tpl("<p><strong>Total Recipes:</strong> "), Num(FormatInt(Len(sorted_rs))), Tpl("</p>") >>,
          << Tpl("<p><strong>Categories:</strong> "), Num(FormatInt(CategoryCount(sorted_rs))), Tpl("</p>") >>,
          Lit("</div>"),
          Lit("<div class=\"recipe-list\">") >>
    \o TocEntries(sorted_rs, <<>>)
    \o << Lit("</div>"), Lit("</body></html>") >>

(***************************************************************************)
(* The run: main, PaprikaToAppleNotesConverter.convert and its steps.      *)
(***************************************************************************)
VARIABLES
    source_exists,   \* the environment: source_dir.exists()
    mkdir_ok,        \* the environment: output_dir.mkdir does not raise
    toc_error,       \* the environment: what writing the table of contents raises
    files,           \* the environment: the *.html files of source_dir, in rglob's order
    out_dir,         \* the output directory exists
    fs,              \* the files of the output directory: name -> document
    pc,              \* where the run is
    run,             \* the number of the run (main is run again on the same directories)
    fs_first,        \* the output directory as the first run left it
    reordered,       \* rglob lists the files to the second run in another order
    recipe_files,    \* _find_recipes: recipe_files
    idx,             \* the position of the loop of _find_recipes or _convert_recipes
    recipes,         \* self.recipes
    attempted,       \* the positions of recipe_files on which Recipe() was called
    write_attempts,  \* the positions of self.recipes whose document was opened for writing
    sorted_recipes,  \* _create_table_of_contents: sorted_recipes
    toc_doc,         \* _create_table_of_contents: html_parts
    toc_written,     \* the table of contents was written by this run
    exit_code,       \* what main returned, -1 before it returns
    raised           \* an exception left main

vars ==
    << source_exists, mkdir_ok, toc_error, files, out_dir, fs, pc, run, fs_first, reordered,
       recipe_files, idx, recipes, attempted, write_attempts, sorted_recipes, toc_doc,
       toc_written, exit_code, raised >>

env == << source_exists, mkdir_ok, toc_error, files, reordered >>

\* open(name, 'x'): the write that does not replace a file
WriteFileExclusive(dir, name, document) ==
    IF name \in DOMAIN dir THEN dir ELSE (name :> document) @@ dir

\* open(name, 'a'): the write that adds to a file
WriteFileAppend(dir, name, document) ==
    IF name \in DOMAIN dir THEN (name :> (dir[name] \o document)) @@ dir
    ELSE (name :> document) @@ dir

\* with open(name, 'w') as f: f.write(document)
WriteFile(dir, name, document) == (name :> document) @@ dir

\* open(name, 'w') has truncated the file and f.write raises
TruncateFile(dir, name) == (name :> <<>>) @@ dir

RECURSIVE SelectRecipeFiles(_)
\* line 528: [f for f in html_files if f.name.lower() != 'index.html']
SelectRecipeFiles(html_files) ==
    IF html_files = <<>> THEN <<>>
    ELSE (IF Lower(Head(html_files).filename) # <<"i","n","d","e","x",".","h","t","m","l">> THEN <<Head(html_files)>> ELSE <<>>)
         \o SelectRecipeFiles(Tail(html_files))

\* main, lines 662-669: the check of the source directory, and the new
\* converter (line 494: self.recipes = [])
Main ==
    /\ pc = "main"
    /\ IF source_exists
       THEN /\ pc' = "mkdir"
            /\ recipes' = <<>>
            /\ UNCHANGED exit_code
       ELSE /\ pc' = "done"
            /\ exit_code' = 1
            /\ UNCHANGED recipes
    /\ UNCHANGED << env, out_dir, fs, run, fs_first, recipe_files, idx, attempted,
                    write_attempts, sorted_recipes, toc_doc, toc_written, raised >>

\* convert, line 501: self.output_dir.mkdir(parents=True, exist_ok=True)
Mkdir ==
    /\ pc = "mkdir"
    /\ IF mkdir_ok
       THEN /\ out_dir' = TRUE
            /\ pc' = "find"
            /\ UNCHANGED raised
       ELSE /\ raised' = TRUE
            /\ pc' = "done"
            /\ UNCHANGED out_dir
    /\ UNCHANGED << env, fs, run, fs_first, recipe_files, idx, recipes, attempted,
                    write_attempts, sorted_recipes, toc_doc, toc_written, exit_code >>

\* where the run goes when the loop of _find_recipes ends
AfterFind(rs) == IF rs = <<>> THEN "toc" ELSE "convert"

\* _find_recipes, lines 525-530: the files found
FindRecipes ==
    /\ pc = "find"
    /\ recipe_files' = SelectRecipeFiles(files)
    /\ idx' = 1
    /\ pc' = IF recipe_files' = <<>> THEN AfterFind(recipes) ELSE "parse"
    /\ UNCHANGED << env, out_dir, fs, run, fs_first, recipes, attempted, write_attempts,
                    sorted_recipes, toc_doc, toc_written, exit_code, raised >>

\* _find_recipes, lines 532-540: one turn of the loop
ParseFile ==
    /\ pc = "parse"
    /\ idx <= Len(recipe_files)
    /\ LET recipe == _parse_html(idx, recipe_files[idx])
       IN  /\ recipes' = IF recipe.title # <<>> THEN Append(recipes, recipe) ELSE recipes
           /\ attempted' = Append(attempted, idx)
           /\ idx' = IF idx = Len(recipe_files) THEN 1 ELSE idx + 1
           /\ pc' = IF idx = Len(recipe_files) THEN AfterFind(recipes') ELSE "parse"
    /\ UNCHANGED << env, out_dir, fs, run, fs_first, recipe_files, write_attempts,
                    sorted_recipes, toc_doc, toc_written, exit_code, raised >>

\* what writing the document of recipe raises: "none", "open" or "write"
WriteError(recipe) == recipe_files[recipe.source_file].write_error

\* _convert_recipes, lines 548-562: one turn of the loop
ConvertRecipe ==
    /\ pc = "convert"
    /\ idx <= Len(recipes)
    /\ LET recipe == recipes[idx]
           output_file == OutputFile(recipe.title)
       IN  fs' = IF WriteError(recipe) = "none"
                 THEN WriteFile(fs, output_file, to_clean_html(recipe))
                 ELSE IF WriteError(recipe) = "write" THEN TruncateFile(fs, output_file)
                 ELSE fs
    /\ write_attempts' = Append(write_attempts, idx)
    /\ idx' = IF idx = Len(recipes) THEN 1 ELSE idx + 1
    /\ pc' = IF idx = Len(recipes) THEN "toc" ELSE "convert"
    /\ UNCHANGED << env, out_dir, run, fs_first, recipe_files, recipes, attempted,
                    sorted_recipes, toc_doc, toc_written, exit_code, raised >>

\* _create_table_of_contents, lines 564-635
CreateTableOfContents ==
    /\ pc = "toc"
    /\ sorted_recipes' = SortedByTitle(recipes)
    /\ toc_doc' = TocLines(sorted_recipes')
    /\ IF toc_error = "none"
       THEN /\ fs' = WriteFile(fs, TocFile, toc_doc')
            /\ toc_written' = TRUE
            /\ pc' = "return"
            /\ UNCHANGED raised
       ELSE /\ fs' = IF toc_error = "write" THEN TruncateFile(fs, TocFile) ELSE fs
            /\ raised' = TRUE
            /\ pc' = "done"
            /\ UNCHANGED toc_written
    /\ UNCHANGED << env, out_dir, run, fs_first, recipe_files, idx, recipes, attempted,
                    write_attempts, exit_code >>

\* convert, lines 512-519, and main, line 672: return 0
Return ==
    /\ pc = "return"
    /\ exit_code' = 0
    /\ pc' = "done"
    /\ UNCHANGED << env, out_dir, fs, run, fs_first, recipe_files, idx, recipes, attempted,
                    write_attempts, sorted_recipes, toc_doc, toc_written, raised >>

\* s[::-1]
Reverse(s) == [i \in 1..Len(s) |-> s[Len(s) + 1 - i]]

\* the program is run a second time, on the directories as they are; the
\* order in which rglob lists the unchanged directory is the file system's
Rerun ==
    /\ pc = "done"
    /\ run = 1
    /\ run' = 2
    /\ fs_first' = fs
    /\ files' \in {files, Reverse(files)}
    /\ reordered' = (files' # files)
    /\ pc' = "main"
    /\ recipe_files' = <<>>
    /\ idx' = 1
    /\ recipes' = <<>>
    /\ attempted' = <<>>
    /\ write_attempts' = <<>>
    /\ sorted_recipes' = <<>>
    /\ toc_doc' = <<>>
    /\ toc_written' = FALSE
    /\ exit_code' = -1
    /\ raised' = FALSE
    /\ UNCHANGED << source_exists, mkdir_ok, toc_error, out_dir, fs >>

\* one run of the program
Run ==
    \/ Main
    \/ Mkdir
    \/ FindRecipes
    \/ ParseFile
    \/ ConvertRecipe
    \/ CreateTableOfContents
    \/ Return

Next == Run \/ Rerun

\* the state of a process that starts main, on the directories of the environment
Start ==
    /\ out_dir = FALSE
    /\ fs = << >>
    /\ pc = "main"
    /\ run = 1
    /\ fs_first = << >>
    /\ reordered = FALSE
    /\ recipe_files = <<>>
    /\ idx = 1
    /\ recipes = <<>>
    /\ attempted = <<>>
    /\ write_attempts = <<>>
    /\ sorted_recipes = <<>>
    /\ toc_doc = <<>>
    /\ toc_written = FALSE
    /\ exit_code = -1
    /\ raised = FALSE

(***************************************************************************)
(* Source files.                                                           *)
(***************************************************************************)
NoMarker == [present |-> FALSE, text |-> <<>>]

Marker(text) == [present |-> TRUE, text |-> text]

NoBlock == [present |-> FALSE, frags |-> <<>>]

Block(frags) == [present |-> TRUE, frags |-> frags]

\* a file that parses and holds no marker
BlankFile(filename) ==
    [ filename |-> filename, failAt |-> 0, write_error |-> "none",
      name |-> NoMarker, category |-> NoMarker, prepTime |-> NoMarker, cookTime |-> NoMarker,
      recipeYield |-> NoMarker,
      url |-> [present |-> FALSE, href |-> <<>>, author |-> NoMarker],
      ingredients |-> <<>>, instructions |-> NoBlock,
      notes |-> [present |-> FALSE, hasP |-> FALSE, texts |-> <<>>],
      nutrition |-> NoBlock,
      image |-> [present |-> FALSE, src |-> <<>>] ]

\* a recipe with every marker
ApplePie ==
    [ BlankFile(<<"a","p","p","l","e",".","h","t","m","l">>) EXCEPT
        !.name = Marker(<<"A","p","p","l","e"," ","P","i","e">>),
        !.category = Marker(<<"D","e","s","s","e","r","t",","," ","o","v","e","n">>),
        !.prepTime = Marker(<<"1","0"," ","m","i","n","s">>),
        !.cookTime = Marker(<<"1","h"," ","3","0","m">>),
        !.recipeYield = Marker(<<"S","e","r","v","e","s",":"," ","4">>),
        !.url = [present |-> TRUE, href |-> <<"h","t","t","p",":","/","/","x",".","o","r","g","/","?","a","=","1","&","b","=","2">>, author |-> Marker(<<"M","o","m","'","s">>)],
        !.ingredients = << <<"U+00BD"," ","c","u","p"," ","s","u","g","a","r">>, <<"2"," ","C"," ","f","l","o","u","r">> >>,
        !.instructions = Block(<< <<"1","."," ","M","i","x"," ","f","l","o","u","r","."," ","B","a","k","e"," ","i","t">> >>),
        !.notes = [present |-> TRUE, hasP |-> TRUE, texts |-> << <<"B","e","s","t"," ","<","w","a","r","m",">">> >>],
        !.nutrition = Block(<< <<"c","a","l","o","r","i","e","s",":"," ","1","0","0">>, <<"f","a","t",":"," ","2"," ","g">> >>),
        !.image = [present |-> TRUE, src |-> <<"a",".","j","p","g">>] ]

\* a file whose parse raises at the instructions, after the title, and
\* whose document cannot be written (f.write raises)
BananaBread ==
    [ BlankFile(<<"b","a","n","a","n","a",".","h","t","m","l">>) EXCEPT
        !.name = Marker(<<"B","A","N","A","N","A"," ","B","R","E","A","D"," ","w","i","t","h"," ","N","U","T","S">>),
        !.category = Marker(<<"c","r","o","c","k","p","o","t">>),
        !.ingredients = << <<"3"," ","b","a","n","a","n","a","s">> >>,
        !.instructions = Block(<< <<"M","a","s","h">>, <<"B","a","k","e">> >>),
        !.failAt = StageOf("instructions"),
        !.write_error = "write" ]

\* two titles that _make_safe_filename empties
Question ==
    [ BlankFile(<<"q",".","h","t","m","l">>) EXCEPT !.name = Marker(<<"?","?">>), !.category = Marker(<<"V","e","g","a","n">>) ]

Star ==
    [ BlankFile(<<"s","t","a","r",".","h","t","m","l">>) EXCEPT !.name = Marker(<<"*">>), !.prepTime = Marker(<<"5"," ","m","i","n">>) ]

\* a file without a name marker
NoName ==
    [ BlankFile(<<"n","o","n","a","m","e",".","h","t","m","l">>) EXCEPT !.category = Marker(<<"O","v","e","n">>) ]

\* a file that cannot be read
Unreadable ==
    [ BlankFile(<<"s","t","e","w",".","h","t","m","l">>) EXCEPT !.name = Marker(<<"S","t","e","w">>), !.failAt = StageOf("read") ]

\* the index of the export
Index ==
    [ BlankFile(<<"I","n","d","e","x",".","H","T","M","L">>) EXCEPT !.name = Marker(<<"I","n","d","e","x">>) ]

\* a recipe whose document cannot be opened for writing
Soup ==
    [ BlankFile(<<"s","o","u","p",".","h","t","m","l">>) EXCEPT
        !.name = Marker(<<"s","o","u","p">>), !.category = Marker(<<"v","e","g","a","n",","," ","q","u","i","c","k">>),
        !.write_error = "open" ]

SampleFiles == << ApplePie, BananaBread, Question, Star, NoName, Unreadable, Index, Soup >>

\* the longest directory listing
MaxFiles == 3

\* the sequences of at most n different elements of s
Listings(s, n) ==
    { [i \in 1..Len(l) |-> s[l[i]]] :
        l \in { m \in UNION { [1..k -> DOMAIN s] : k \in 0..n } :
                  \A i, j \in DOMAIN m : i # j => m[i] # m[j] } }

Init ==
    /\ Start
    /\ \/ /\ source_exists = FALSE
          /\ mkdir_ok = TRUE
          /\ toc_error = "none"
          /\ files = <<>>
       \/ /\ source_exists = TRUE
          /\ mkdir_ok = FALSE
          /\ toc_error = "none"
          /\ files \in Listings(SampleFiles, 1)
       \/ /\ source_exists = TRUE
          /\ mkdir_ok = TRUE
          /\ toc_error \in {"none", "open", "write"}
          /\ files \in Listings(SampleFiles, MaxFiles)

Spec == Init /\ [][Next]_vars

(***************************************************************************)
(* The run and its failures.                                               *)
(***************************************************************************)
\* 1, 2, ..., n
Upto(n) == [i \in 1..n |-> i]

\* C1: only a missing source directory is fatal.  When the source directory
\* is missing main returns 1 before the output directory is made or a file
\* is read; every other run calls Recipe() on every candidate file, opens
\* the document of every record, writes the table of contents and returns 0.
C1_OnlyMissingSourceIsFatal ==
    pc = "done" =>
        IF ~source_exists
        THEN exit_code = 1 /\ ~out_dir /\ attempted = <<>> /\ fs = << >>
        ELSE /\ exit_code = 0
             /\ ~raised
             /\ attempted = Upto(Len(SelectRecipeFiles(files)))
             /\ write_attempts = Upto(Len(recipes))
             /\ toc_written
             /\ TocFile \in DOMAIN fs

\* C1, the part that holds: when the output directory can be made and the
\* table of contents can be written, no failure of a file or of a record's
\* document ends the run.
C1_ItemFailuresAreNotFatal ==
    (pc = "done" /\ source_exists /\ mkdir_ok /\ toc_error = "none") =>
        /\ exit_code = 0
        /\ ~raised
        /\ attempted = Upto(Len(SelectRecipeFiles(files)))
        /\ write_attempts = Upto(Len(recipes))
        /\ toc_written

\* the source file of a record
FileOf(recipe) == recipe_files[recipe.source_file]

\* C2: a file whose parse fails at any point, or that has no name marker,
\* yields no record: every record comes from a file that parsed to its end
\* and has a name marker.
C2_FailedFileYieldsNoRecord ==
    \A i \in DOMAIN recipes :
        FileOf(recipes[i]).failAt = 0 /\ FileOf(recipes[i]).name.present

\* the records whose document has the name of the document of recipes[i]
SameOutputFile(i) ==
    { j \in DOMAIN recipes : OutputFile(recipes[j].title) = OutputFile(recipes[i].title) }

\* records i and others derive one file name, and all their writes succeed
CollisionAt(i) ==
    /\ Cardinality(SameOutputFile(i)) >= 2
    /\ \A j \in SameOutputFile(i) : WriteError(recipes[j]) = "none"

C10_RerunIdempotent ==
    (run = 2 /\ pc = "done" /\ ~reordered) => fs = fs_first

\* a second run has ended, with colliding records and documents written
C10_Witness ==
    /\ run = 2
    /\ pc = "done"
    /\ ~reordered
    /\ exit_code = 0
    /\ Cardinality(DOMAIN fs) >= 3
    /\ \E i \in DOMAIN recipes : CollisionAt(i)

\* a second run that lists the files in another order leaves other contents
C10_ReorderedDiffers ==
    ~(run = 2 /\ pc = "done" /\ reordered /\ fs # fs_first)

(***************************************************************************)
(* The extraction of one field: the loop of _find_recipes on one file.     *)
(***************************************************************************)
\* the texts made of at most n of the chunks
Texts(chunks, n) ==
    { Concat(l) : l \in UNION { [1..k -> chunks] : k \in 0..n } }

\* the state of a run that enters the loop of _find_recipes
InLoop ==
    /\ source_exists = TRUE
    /\ mkdir_ok = TRUE
    /\ toc_error = "none"
    /\ out_dir = TRUE
    /\ fs = << >>
    /\ pc = "parse"
    /\ run = 1
    /\ fs_first = << >>
    /\ reordered = FALSE
    /\ recipe_files = SelectRecipeFiles(files)
    /\ idx = 1
    /\ recipes = <<>>
    /\ attempted = <<>>
    /\ write_attempts = <<>>
    /\ sorted_recipes = <<>>
    /\ toc_doc = <<>>
    /\ toc_written = FALSE
    /\ exit_code = -1
    /\ raised = FALSE

\* what the texts of the name marker are made of
TitleChunks ==
    { <<"1">>, <<"2">>, <<".">>, <<" ">>, <<"R","e","c","i","p","e",":">>, <<"R","E","C","I","P","E",":">>, <<"S","o","u","p">>, <<"S","O","U","P">>, <<" ","a","n","d"," ">> }

\* the most chunks of a name marker
MaxTitleChunks == 4

InitTitle ==
    /\ files \in { << [BlankFile(<<"t",".","h","t","m","l">>) EXCEPT !.name = Marker(t)] >> :
                     t \in Texts(TitleChunks, MaxTitleChunks) }
    /\ InLoop

\* lines 47-49 on every text of the name marker
SpecTitle == InitTitle /\ [][ParseFile]_vars

\* the text of the name marker of the one file
NameText == files[1].name.text

\* C3: for every name marker with non-empty text the extracted title is
\* non-empty (the file yields a record) and begins neither with digits and
\* a dot nor with 'Recipe:' in any case.
C3_TitleNonEmptyWithoutPrefix ==
    (attempted = <<1>> /\ NameText # <<>>) =>
        /\ Len(recipes) = 1
        /\ recipes[1].title # <<>>
        /\ ~HasNumberPrefix(recipes[1].title)
        /\ ~StartsWithIgnoreCase(recipes[1].title, RecipePrefix)

\* C3, the part that holds: a title that is extracted is what one pass of
\* the two prefix removals leaves, so a name with one prefix of each kind at
\* most, in the order number then 'Recipe:', followed by other text, yields
\* a title without them.
C3_OnePassOfPrefixRemoval ==
    (attempted = <<1>> /\ recipes # <<>>) =>
        LET t0 == _clean_text(Strip(NameText))
            t2 == StripRecipePrefix(StripNumberPrefix(t0))
        IN  (t0 # <<>> /\ ~MostlyUpper(t2)) => recipes[1].title = Strip(CollapseSpaces(t2))

(***************************************************************************)
(* The extraction and the rendering of one ingredient.                     *)
(***************************************************************************)
\* what the texts of an ingredient marker are made of
IngredientChunks ==
    { <<"U+00BD">>, <<"U+215E">>, <<"1">>, <<" ">>, <<"c","u","p">>, <<"c">>, <<"T">>, <<"l","b","s">>, <<"/">> }

\* the most chunks of an ingredient marker
MaxIngredientChunks == 3

InitIngredient ==
    /\ files \in { << [BlankFile(<<"t",".","h","t","m","l">>) EXCEPT !.name = Marker(<<"C","a","k","e">>),
                                                     !.ingredients = << t >>] >> :
                     t \in Texts(IngredientChunks, MaxIngredientChunks) }
    /\ InLoop

\* lines 79-83 and 426-433 on every text of one ingredient marker
SpecIngredient == InitIngredient /\ [][ParseFile \/ ConvertRecipe]_vars

\* the text of the ingredient marker of the one file
IngredientText == files[1].ingredients[1]

\* the glyphs of fraction_map in s
HasGlyph(s) == \E i \in DOMAIN s : \E k \in DOMAIN fraction_map : s[i] = fraction_map[k][1]

\* s holds the ASCII form of every glyph of fraction_map that raw holds
HasAsciiForms(raw, s) ==
    \A k \in DOMAIN fraction_map :
        Contains(raw, <<fraction_map[k][1]>>) => Contains(s, fraction_map[k][2])

\* the <li> lines of a document
ListItems(document) ==
    { i \in DOMAIN document :
        Len(document[i]) = 3 /\ document[i][1] = Tpl("<li>") /\ document[i][3] = Tpl("</li>") }

\* C4: an ingredient that holds a vulgar fraction glyph is stored and
\* rendered with the glyph's ASCII form ('1/2', with U+002F) and without
\* the glyph.
C4_FractionsBecomeAscii ==
    (pc = "toc" /\ HasGlyph(IngredientText)) =>
        /\ Len(recipes[1].ingredients) = 1
        /\ HasAsciiForms(IngredientText, recipes[1].ingredients[1])
        /\ ~HasGlyph(recipes[1].ingredients[1])
        /\ LET document == fs[OutputFile(recipes[1].title)]
           IN  \A i \in ListItems(document) :
                  /\ HasAsciiForms(IngredientText, document[i][2].text)
                  /\ ~HasGlyph(document[i][2].text)

\* C4, the part that holds: the glyph is not kept, and stands as its NFKC
\* form, with the fraction slash U+2044
C4_FractionsBecomeNFKC ==
    (pc = "toc" /\ HasGlyph(IngredientText)) =>
        /\ Len(recipes[1].ingredients) = 1
        /\ ~HasGlyph(recipes[1].ingredients[1])
        /\ Contains(recipes[1].ingredients[1], <<"U+2044">>)
        /\ ~Contains(IngredientText, <<"/">>) => ~Contains(recipes[1].ingredients[1], <<"/">>)

(***************************************************************************)
(* The rendering of one record: to_clean_html on the texts of its fields.  *)
(***************************************************************************)
\* what the texts of a marker are made of
RenderChunks ==
    { <<"&">>, <<"<">>, <<">">>, <<"\"">>, <<"'">>, <<"a">>, <<"l","t",";">>, <<"&","a","m","p",";">> }

\* the most chunks of a marker
MaxRenderChunks == 3

\* the fields that to_clean_html interpolates
RenderFields ==
    { "title", "prep_time", "cook_time", "servings", "categories", "ingredients",
      "instructions", "notes", "nutrition", "source_url", "source_name" }

\* a file whose marker of the field named kind (of every field, for "all")
\* holds the text t
RenderFile(kind, t) ==
    LET has(k) == kind \in {k, "all"}
        mark(k) == IF has(k) THEN Marker(t) ELSE NoMarker
    IN  [ BlankFile(<<"t",".","h","t","m","l">>) EXCEPT
            !.name = IF has("title") THEN Marker(t) ELSE Marker(<<"C","a","k","e">>),
            !.category = mark("categories"),
            !.prepTime = mark("prep_time"),
            !.cookTime = mark("cook_time"),
            !.recipeYield = mark("servings"),
            !.url = IF has("source_url") THEN [present |-> TRUE, href |-> t, author |-> mark("source_name")]
                    ELSE IF has("source_name") THEN [present |-> TRUE, href |-> <<"h","t","t","p",":","/","/","x",".","o","r","g">>, author |-> Marker(t)]
                    ELSE @,
            !.ingredients = IF has("ingredients") THEN << t >> ELSE <<>>,
            !.instructions = IF has("instructions") THEN Block(<< t >>) ELSE NoBlock,
            !.notes = IF has("notes") THEN [present |-> TRUE, hasP |-> TRUE, texts |-> << t >>] ELSE @,
            !.nutrition = IF has("nutrition") THEN Block(<< <<"k",":"," ">> \o t >>) ELSE NoBlock ]

InitRender ==
    /\ files \in { << RenderFile(kind, t) >> :
                     kind \in RenderFields \cup {"all"}, t \in Texts(RenderChunks, MaxRenderChunks) }
    /\ InLoop

\* the parse of one file and the writing of its record's document
SpecRender == InitRender /\ [][ParseFile \/ ConvertRecipe]_vars

\* the five characters that _escape_html replaces, and their entities
Entities5 ==
    << << "&", <<"&","a","m","p",";">> >>, << "<", <<"&","l","t",";">> >>, << ">", <<"&","g","t",";">> >>,
       << "\"", <<"&","q","u","o","t",";">> >>, << "'", <<"&","#","x","2","7",";">> >> >>

RECURSIVE IsEscaped(_)
\* s holds none of the five characters but as the '&' of one of the entities
IsEscaped(s) ==
    IF s = <<>> THEN TRUE
    ELSE IF s[1] = "&"
         THEN \E k \in DOMAIN Entities5 :
                 StartsWith(s, Entities5[k][2]) /\ IsEscaped(Drop(s, Len(Entities5[k][2])))
    ELSE IF \E k \in DOMAIN Entities5 : s[1] = Entities5[k][1] THEN FALSE
    ELSE IsEscaped(Tail(s))

RECURSIVE Unescape5(_)
\* what a reader of HTML takes the text s for: every entity is its character
Unescape5(s) ==
    IF s = <<>> THEN <<>>
    ELSE IF \E k \in DOMAIN Entities5 : StartsWith(s, Entities5[k][2])
         THEN LET k == CHOOSE k \in DOMAIN Entities5 : StartsWith(s, Entities5[k][2])
              IN  << Entities5[k][1] >> \o Unescape5(Drop(s, Len(Entities5[k][2])))
    ELSE << s[1] >> \o Unescape5(Tail(s))

\* the texts of a document that come from the fields of a record
DomainTexts(document) ==
    UNION { { document[i][j].text : j \in { k \in DOMAIN document[i] : document[i][k].kind = "txt" } } :
              i \in DOMAIN document }

\* the values of the fields of the record r that to_clean_html interpolates
FieldValues(r) ==
    ( { r.title, r.prep_time, r.cook_time, r.servings, r.source_url, r.source_name }
      \cup Range(r.categories) \cup Range(r.ingredients) \cup Range(r.instructions)
      \cup Range(r.notes) \cup Range(r.nutrition) ) \ { <<>> }

\* C5: in the document of a record every text that comes from a field is
\* escaped: it holds no '<', '>', '"' or ''' and no '&' but the one that
\* begins an entity of _escape_html, and read as HTML it is the value of
\* the field, nothing being escaped twice; every value of a field is there.
C5_FieldsAreEscapedOnce ==
    (pc = "toc" /\ recipes # <<>>) =>
        LET document == fs[OutputFile(recipes[1].title)]
        IN  /\ \A t \in DomainTexts(document) : IsEscaped(t)
            /\ { Unescape5(t) : t \in DomainTexts(document) } = FieldValues(recipes[1])

\* the document of a record with a field that holds the text of an entity,
\* '&lt;', and of one, of any field, that holds each of the five characters
C5_Witness ==
    /\ pc = "toc"
    /\ recipes # <<>>
    /\ \/ \E t \in FieldValues(recipes[1]) : Contains(t, <<"&","l","t",";">>)
       \/ \E t \in FieldValues(recipes[1]) : Contains(t, <<"<","\"">>) /\ Contains(t, <<"'">>)
    /\ \E t \in DomainTexts(fs[OutputFile(recipes[1].title)]) : Contains(t, <<"&","a","m","p",";">>)

(***************************************************************************)
(* The table of contents of a collection.                                  *)
(***************************************************************************)
\* a file with a name marker and a category marker
CollectionFile(filename, name, category) ==
    [ BlankFile(filename) EXCEPT !.name = Marker(name), !.category = Marker(category) ]

\* titles that share a first letter, titles that differ by case only, and
\* titles whose first letters are 'I' and the dotless 'i' (U+0131)
TocSampleFiles ==
    << [ CollectionFile(<<"1",".","h","t","m","l">>, <<"A","p","p","l","e"," ","P","i","e">>, <<"D","e","s","s","e","r","t",","," ","o","v","e","n">>) EXCEPT !.prepTime = Marker(<<"1","0"," ","m","i","n","s">>) ],
       CollectionFile(<<"2",".","h","t","m","l">>, <<"B","a","n","a","n","a"," ","B","r","e","a","d">>, <<"D","e","s","s","e","r","t",","," ","d","e","s","s","e","r","t",","," ","D","e","s","s","e","r","t">>),
       [ BlankFile(<<"3",".","h","t","m","l">>) EXCEPT !.name = Marker(<<"A","p","r","i","c","o","t"," ","T","a","r","t">>), !.cookTime = Marker(<<"1"," ","h","r">>) ],
       CollectionFile(<<"4",".","h","t","m","l">>, <<"a","p","p","l","e"," ","p","i","e">>, <<"a","&","b">>),
       CollectionFile(<<"5",".","h","t","m","l">>, <<"I","c","e">>, <<"c","r","o","c","k","p","o","t">>),
       CollectionFile(<<"6",".","h","t","m","l">>, <<"J","a","m">>, <<"s","l","o","w"," ","c","o","o","k","e","r">>),
       CollectionFile(<<"7",".","h","t","m","l">>, <<"U+0131","r","m","a","k">>, <<"O","v","e","n">>) >>

\* the longest directory listing of a collection
MaxTocFiles == 3

\* the export found twice, under two directories of source_dir
TwoExports == TocSampleFiles \o TocSampleFiles

InitToc ==
    /\ Start
    /\ source_exists = TRUE
    /\ mkdir_ok = TRUE
    /\ toc_error = "none"
    /\ files \in Listings(TocSampleFiles, MaxTocFiles) \cup { TwoExports }

\* one run on a collection, the directories being writable
SpecToc == InitToc /\ [][Run]_vars

\* the lines of a document that open with the literal lit
LinesFrom(document, lit) ==
    LET Opens(line) == line # <<>> /\ line[1] = Tpl(lit)
    IN  SelectSeq(document, Opens)

\* the text of the second piece of every line of lines
SecondTexts(lines) == [i \in DOMAIN lines |-> lines[i][2].text]

\* the headings of the table of contents, in their order
TocHeadings == SecondTexts(LinesFrom(toc_doc, "<h2>"))

\* the titles of the table of contents, in their order
TocTitles == SecondTexts(LinesFrom(toc_doc, "<div class=\"recipe-title\">"))

\* the table of contents of this run is made and written
TocDone == pc \in {"return", "done"} /\ toc_written

\* the section key of a record as the claim states it
SectionKey(r) == << UpperCh(r.title[1]) >>

\* C6: the headings of the table of contents partition the sorted records
\* by the uppercased first character of the title: a heading stands before
\* a record exactly when its key differs from the key of the record before,
\* and every key has one heading in the whole document.
C6_OneHeadingPerKey ==
    TocDone =>
        /\ Range(TocHeadings) = { SectionKey(sorted_recipes[i]) : i \in DOMAIN sorted_recipes }
        /\ \A i, j \in DOMAIN TocHeadings : i # j => TocHeadings[i] # TocHeadings[j]

\* C6, the part that holds: the headings are the keys of the records whose
\* key differs from the key of the record before, in their order
C6_HeadingWhenKeyChanges ==
    TocDone =>
        LET Changes(i) == i = 1 \/ SectionKey(sorted_recipes[i]) # SectionKey(sorted_recipes[i - 1])
            changes == { i \in DOMAIN sorted_recipes : Changes(i) }
        IN  /\ Len(TocHeadings) = Cardinality(changes)
            /\ \A i \in changes :
                  TocHeadings[Cardinality({ k \in changes : k <= i })] = SectionKey(sorted_recipes[i])

\* C7: the table of contents lists the records in non-decreasing order of
\* the lowercased title, records of equal lowercased title in discovery
\* order; the sorted list has the records of self.recipes, each once, and
\* self.recipes stays in discovery order.
C7_SortedByLowercasedTitle ==
    TocDone =>
        /\ Len(sorted_recipes) = Len(recipes)
        /\ Range(sorted_recipes) = Range(recipes)
        /\ \A i, j \in DOMAIN sorted_recipes :
              i < j =>
                 /\ ~StrLess(Lower(sorted_recipes[j].title), Lower(sorted_recipes[i].title))
                 /\ Lower(sorted_recipes[i].title) = Lower(sorted_recipes[j].title)
                       => sorted_recipes[i].source_file < sorted_recipes[j].source_file
        /\ \A i, j \in DOMAIN recipes : i < j => recipes[i].source_file < recipes[j].source_file
        /\ TocTitles = [i \in DOMAIN sorted_recipes |-> _escape_html(sorted_recipes[i].title)]
        /\ fs[TocFile] = toc_doc

\* a table of contents whose order is not the discovery order, nor the order
\* of the titles as they are, with two records of equal lowercased title
C7_Witness ==
    /\ TocDone
    /\ sorted_recipes # recipes
    /\ \E i, j \in DOMAIN sorted_recipes :
          i < j /\ StrLess(sorted_recipes[j].title, sorted_recipes[i].title)
    /\ \E i, j \in DOMAIN sorted_recipes :
          i < j /\ Lower(sorted_recipes[i].title) = Lower(sorted_recipes[j].title)
                /\ sorted_recipes[i].title # sorted_recipes[j].title

RECURSIVE ParseInt(_)
\* int(digits)
ParseInt(digits) ==
    IF digits = <<>> THEN 0
    ELSE 10 * ParseInt(Take(digits, Len(digits) - 1)) + (Pos(DigitSeq, digits[Len(digits)]) - 1)

\* the number that the table of contents shows after the label
StatValue(label) ==
    LET lines == LinesFrom(toc_doc, label)
    IN  IF Len(lines) = 1 /\ lines[1][2].kind = "num" THEN ParseInt(lines[1][2].text) ELSE -1

\* C8: the table of contents shows as 'Total Recipes' the number of records
\* and as 'Categories' the number of different categories of all the
\* records, told apart by case.
C8_StatsCountRecordsAndCategories ==
    TocDone =>
        /\ StatValue("<p><strong>Total Recipes:</strong> ") = Len(recipes)
        /\ StatValue("<p><strong>Categories:</strong> ") =
              Cardinality(UNION { Range(recipes[i].categories) : i \in DOMAIN recipes })

\* a table of contents of ten records or more that share categories, one
\* of them holding a category twice
C8_Witness ==
    /\ TocDone
    /\ Len(recipes) >= 10
    /\ \E i, j \in DOMAIN recipes : i # j /\ Range(recipes[i].categories) \cap Range(recipes[j].categories) # {}
    /\ \E i \in DOMAIN recipes : Len(recipes[i].categories) > Cardinality(Range(recipes[i].categories))
    /\ StatValue("<p><strong>Categories:</strong> ") >= 2

(***************************************************************************)
(* The extraction of the categories of one file.                           *)
(***************************************************************************)
\* what the texts of a category marker are made of
CategoryChunks ==
    { <<"c","r","o","c","k","p","o","t">>, <<"C","R","O","C","K","P","O","T">>, <<"s","l","o","w"," ","c","o","o","k","e","r">>, <<"o","v","e","n">>, <<"v","e","g","a","n">>, <<"s","o","u","p">>, <<"m","y">>, <<",">>, <<" ">> }

\* the most chunks of a category marker
MaxCategoryChunks == 3

InitCategory ==
    /\ files \in { << [BlankFile(<<"t",".","h","t","m","l">>) EXCEPT !.name = Marker(<<"C","a","k","e">>), !.category = Marker(t)] >> :
                     t \in Texts(CategoryChunks, MaxCategoryChunks) }
    /\ InLoop

\* lines 52-55 on every text of the category marker
SpecCategory == InitCategory /\ [][ParseFile]_vars

\* the tokens of the category marker of the one file: the parts between
\* the commas, stripped, the empty ones left out
CategoryTokens ==
    LET split == SplitOn(Strip(files[1].category.text), ",", <<>>)
    IN  SelectNonEmpty([i \in 1..Len(split) |-> Strip(split[i])])

\* the keys of category_mapping that the token holds, by their position
KeysIn(token) ==
    { k \in DOMAIN category_mapping : Contains(Lower(_clean_text(token)), category_mapping[k][1]) }

\* the label of the earliest key of the table that the token holds, the
\* title-cased token when it holds none
FirstKeyLabel(token) ==
    IF KeysIn(token) = {} THEN Title(_clean_text(token))
    ELSE category_mapping[CHOOSE k \in KeysIn(token) : \A j \in KeysIn(token) : k <= j][2]

\* the label of a token as the claim states it: 'Slow Cooker' for a token
\* that holds 'crockpot' or 'slow cooker'
SynonymLabel(token) ==
    IF Contains(Lower(_clean_text(token)), <<"c","r","o","c","k","p","o","t">>) \/ Contains(Lower(_clean_text(token)), <<"s","l","o","w"," ","c","o","o","k","e","r">>)
    THEN <<"S","l","o","w"," ","C","o","o","k","e","r">>
    ELSE FirstKeyLabel(token)

\* C11: every token of the category marker is mapped through the table by
\* the first key in declared order that it holds; a token that holds
\* 'crockpot' or 'slow cooker' becomes the one label 'Slow Cooker', and a
\* token that holds no key is title-cased.
C11_CrockpotIsSlowCooker ==
    (attempted = <<1>> /\ recipes # <<>>) =>
        recipes[1].categories = [i \in 1..Len(CategoryTokens) |-> SynonymLabel(CategoryTokens[i])]

\* C11, the part that holds: every token becomes the label of the earliest
\* key of the table that it holds ('Crockpot' for 'crockpot'), and is
\* title-cased when it holds none
C11_FirstKeyInDeclaredOrder ==
    (attempted = <<1>> /\ recipes # <<>>) =>
        recipes[1].categories = [i \in 1..Len(CategoryTokens) |-> FirstKeyLabel(CategoryTokens[i])]

(***************************************************************************)
(* The extraction of the instructions of one file.                         *)
(***************************************************************************)
\* what the texts of an instructions element are made of
InstructionChunks ==
    { <<"1",".">>, <<"2",".">>, <<" ">>, <<"S","t","i","r">>, <<"M","i","x"," ","i","t",".">>, <<"o","k","!">> }

\* the most chunks of a text of the instructions element
MaxInstructionChunks == 3

\* an instructions element without <br/> (one text, split into sentences)
\* or with one <br/> (two texts, each a step)
InstructionFrags ==
    UNION { { << t >>, << t, <<"B","a","k","e">> >>, << <<"M","a","s","h">>, t >> } :
              t \in Texts(InstructionChunks, MaxInstructionChunks) }

InitInstructions ==
    /\ files \in { << [BlankFile(<<"t",".","h","t","m","l">>) EXCEPT !.name = Marker(<<"C","a","k","e">>), !.instructions = Block(frags)] >> :
                     frags \in InstructionFrags }
    /\ InLoop

\* lines 86-90 on every instructions element
SpecInstructions == InitInstructions /\ [][ParseFile]_vars

\* C12: in both splitting modes every element of the instructions of a
\* record is non-empty, ends in '.', '!' or '?' and does not begin with
\* digits and a dot.
C12_StepsAreCleanAndPunctuated ==
    (attempted = <<1>> /\ recipes # <<>>) =>
        \A i \in DOMAIN recipes[1].instructions :
            LET step == recipes[1].instructions[i]
            IN  /\ step # <<>>
                /\ step[Len(step)] \in {".", "!", "?"}
                /\ ~HasNumberPrefix(step)

\* C12, the part that holds: an element that is not empty ends in '.', '!'
\* or '?'
C12_NonEmptyStepsArePunctuated ==
    (attempted = <<1>> /\ recipes # <<>>) =>
        \A i \in DOMAIN recipes[1].instructions :
            LET step == recipes[1].instructions[i]
            IN  step # <<>> => step[Len(step)] \in {".", "!", "?"}

(***************************************************************************)
(* The containers of the table of contents.                                *)
(***************************************************************************)
\* the literals of _create_table_of_contents that open a div
DivOpenings ==
    { "<div class=\"stats\">", "<div class=\"recipe-list\">", "<div class=\"recipe-item\">",
      "<div class=\"recipe-title\">", "<div class=\"recipe-meta\">" }

\* the pieces of the table of contents, line after line
TocPieces == Concat(toc_doc)

\* the divs that the first n pieces open, less those that they close
DivDepth(n) ==
    Cardinality({ i \in 1..n : TocPieces[i].kind = "tpl" /\ TocPieces[i].lit \in DivOpenings })
        - Cardinality({ i \in 1..n : TocPieces[i].kind = "tpl" /\ TocPieces[i].lit = "</div>" })

\* the section keys of the records of the table of contents
SectionKeys == { FirstLetter(sorted_recipes[i]) : i \in DOMAIN sorted_recipes }

\* C13: the divs of the table of contents are balanced: no prefix of the
\* document closes more divs than it has opened, and the whole document
\* closes as many as it opens.
C13_DivsAreBalanced ==
    TocDone =>
        /\ \A n \in 0..Len(TocPieces) : DivDepth(n) >= 0
        /\ DivDepth(Len(TocPieces)) = 0

\* C13, the part that holds: the document closes one div too many for
\* every section after the first, so it is balanced when the records have
\* one section key or none
C13_OneClosingPerLaterSection ==
    TocDone =>
        DivDepth(Len(TocPieces)) = IF SectionKeys = {} THEN 0 ELSE 1 - Len(TocHeadings)

(***************************************************************************)
(* The texts of the table of contents.                                     *)
(***************************************************************************)
\* the texts of the recipe-meta lines of the table of contents
TocMetaTexts == DomainTexts(LinesFrom(toc_doc, "<div class=\"recipe-meta\">"))

\* C14: every text of the table of contents that comes from a field of a
\* record is escaped: the titles, and the categories, the prep time and
\* the cook time of the recipe-meta lines hold no '<', '>' or '&' but as
\* an entity.
C14_SummaryTextsAreEscaped ==
    TocDone =>
        /\ \A i \in DOMAIN TocTitles : IsEscaped(TocTitles[i])
        /\ \A t \in TocMetaTexts : IsEscaped(t)

\* C14, the part that holds: the titles are escaped, and the texts of the
\* recipe-meta lines are the fields as they are stored
C14_MetaTextsAreRaw ==
    TocDone =>
        /\ \A i \in DOMAIN TocTitles : IsEscaped(TocTitles[i])
        /\ TocMetaTexts =
              UNION { Range(recipes[i].categories) \cup ({ recipes[i].prep_time, recipes[i].cook_time } \ { <<>> }) :
                        i \in DOMAIN recipes }

(***************************************************************************)
(* The documents of the records and the table of contents in the output    *)
(* directory.                                                              *)
(***************************************************************************)
\* a recipe whose title is the name of the table of contents, the
\* underscores as spaces
ContentsTitled ==
    [ BlankFile(<<"c",".","h","t","m","l">>) EXCEPT
        !.name = Marker(<<"0","0"," ","R","e","c","i","p","e"," ","C","o","l","l","e","c","t","i","o","n"," ","T","a","b","l","e"," ","o","f"," ","C","o","n","t","e","n","t","s">>),
        !.ingredients = << <<"1"," ","e","g","g">> >> ]

\* a recipe whose document is opened and cannot be written
Stew ==
    [ BlankFile(<<"w",".","h","t","m","l">>) EXCEPT !.name = Marker(<<"S","t","e","w">>), !.write_error = "write" ]

SummarySampleFiles == << ContentsTitled, ApplePie, Soup, Stew, Star >>

\* the longest directory listing
MaxSummaryFiles == 3

InitSummary ==
    /\ Start
    /\ source_exists = TRUE
    /\ mkdir_ok = TRUE
    /\ toc_error = "none"
    /\ files \in Listings(SummarySampleFiles, MaxSummaryFiles)

\* one run, the table of contents being writable
SpecSummary == InitSummary /\ [][Run]_vars

\* C15: the document of a record and the table of contents never have the
\* same path: the file name derived from the title of a record is not the
\* name of the table of contents, and the document of a record that was
\* written is in the output directory when the run ends.
C15_SummaryPathIsNoRecordPath ==
    TocDone =>
        \A i \in DOMAIN recipes :
            /\ OutputFile(recipes[i].title) # TocFile
            /\ (WriteError(recipes[i]) = "none" /\ ~CollisionAt(i))
                  => fs[OutputFile(recipes[i].title)] = to_clean_html(recipes[i])

\* C15, the part that holds: the document of a record whose file name is
\* not the name of the table of contents stays as it was written
C15_OtherDocumentsAreKept ==
    TocDone =>
        \A i \in DOMAIN recipes :
            (OutputFile(recipes[i].title) # TocFile /\ WriteError(recipes[i]) = "none" /\ ~CollisionAt(i))
                => fs[OutputFile(recipes[i].title)] = to_clean_html(recipes[i])

\* the records whose document was written
WrittenRecords == { i \in DOMAIN recipes : WriteError(recipes[i]) = "none" }

\* C16: every record that the table of contents lists, and counts in
\* 'Total Recipes', has a document that was written: a record whose write
\* failed is neither listed nor counted.
C16_ListedRecordsAreWritten ==
    TocDone =>
        /\ \A i \in DOMAIN sorted_recipes :
              /\ WriteError(sorted_recipes[i]) = "none"
              /\ OutputFile(sorted_recipes[i].title) \in DOMAIN fs
        /\ StatValue("<p><strong>Total Recipes:</strong> ") = Cardinality(WrittenRecords)

\* C16, the part that holds: the table of contents lists and counts every
\* record that was parsed, whether its document was written or not
C16_SummaryListsParsedRecords ==
    TocDone =>
        /\ Range(sorted_recipes) = Range(recipes)
        /\ Len(TocTitles) = Len(recipes)
        /\ StatValue("<p><strong>Total Recipes:</strong> ") = Len(recipes)

====
